---- MODULE Spec2Model ----
(***************************************************************************)
(* Session-window reconstruction of claude-dash: log ingestion             *)
(* (ClaudeCodeReader._load_usage_entries), full rebuild                    *)
(* (_create_session_blocks), per-entry aggregation (_add_entry_to_block),  *)
(* incremental refresh (_update_session_blocks / _merge_new_entries) and   *)
(* the historical-maximum query (get_historical_session_maximums).         *)
(*                                                                         *)
(* Time is in whole seconds since an arbitrary epoch that is a UTC         *)
(* midnight; a datetime is an integer, a timedelta is an integer.          *)
(* Costs (floats) are not modelled; every log line names the same model.   *)
(***************************************************************************)
EXTENDS Integers, Sequences, FiniteSets, TLC

VARIABLES
    now,                  \* datetime.now(timezone.utc), the wall clock
    files,                \* the *.jsonl files under claude_dir: a sequence of files
    entries,              \* the entry list last returned by _load_usage_entries / handed to a rebuild
    session_blocks,       \* ClaudeCodeReader._session_blocks
    blocks_last_updated,  \* ClaudeCodeReader._blocks_last_updated (NoTime = None)
    full_data_loaded,     \* ClaudeCodeReader._full_data_loaded
    hist_pc,              \* position of the thread inside get_historical_session_maximums
    old_blocks,           \* the local old_blocks of get_historical_session_maximums
    reader_pc,            \* position of a second thread inside get_usage_data
    observed,             \* the block list the second thread read
    block,                \* one SessionBlock, for the per-entry aggregation
    entry,                \* the entry last given to _add_entry_to_block
    prev,                 \* the value before the last operation (history)
    phase,                \* which step of the scenario has run (history)
    ticks,                \* number of clock advances and log appends so far (bounds the run)
    running,              \* DataUpdateWorker.running
    worker_pc,            \* position of the worker thread inside DataUpdateWorker.run
    slept,                \* the index of the sleep loop of DataUpdateWorker.run
    emitted,              \* the dict last handed to the UI thread by data_ready.emit
    last_historical_update, \* DataUpdateWorker.last_historical_update (NoTime = None)
    recent_multipliers,   \* AdaptiveBoundsCalculator.recent_multipliers
    pattern_history,      \* AdaptiveBoundsCalculator.pattern_history
    limits,               \* BayesianLimitEstimator.limits: one LimitBelief per metric
    total_observations,   \* BayesianLimitEstimator.total_observations
    belief                \* a LimitBelief constructed on its own

worker_vars == << running, worker_pc, slept, emitted, last_historical_update >>

bounds_vars == << recent_multipliers, pattern_history >>

estimator_vars == << limits, total_observations, belief >>

vars == << now, files, entries, session_blocks, blocks_last_updated, full_data_loaded,
           hist_pc, old_blocks, reader_pc, observed, block, entry, prev, phase, ticks,
           worker_vars, bounds_vars, estimator_vars >>

(***************************************************************************)
(* Units and program constants                                             *)
(***************************************************************************)
Minute == 60
Hour == 3600
Day == 86400
NoTime == -1                 \* None where a datetime is expected
NoId == 0                    \* a missing (None or empty) message / request id

session_duration_hours == 5
SESSION_GAP_MINUTES == 5
IDLE_MINUTES == 10
RETENTION_HOURS == 24
quick_start_hours == 24
INCREMENTAL_HOURS == 1
HIST_DAYS_BACK == 7
cache_duration_seconds == 30

SessionDuration == session_duration_hours * Hour

(***************************************************************************)
(* Small helpers                                                           *)
(***************************************************************************)
Max(a, b) == IF a >= b THEN a ELSE b

EmptyUsage == [k \in {} |-> 0]

\* dict.get(key, 0)
Get(d, key) == IF key \in DOMAIN d THEN d[key] ELSE 0

Range(s) == {s[i] : i \in 1..Len(s)}

\* datetime.replace(minute=0, second=0, microsecond=0)
round_to_hour(timestamp) == timestamp - (timestamp % Hour)

\* now.replace(hour=0, minute=0, second=0, microsecond=0)
today_midnight(t) == t - (t % Day)

(***************************************************************************)
(* SessionBlock                                                            *)
(***************************************************************************)
SessionBlock(start_time, end_time) ==
    [ start_time |-> start_time,
      end_time |-> end_time,
      actual_end_time |-> NoTime,
      is_active |-> FALSE,
      input_tokens |-> 0,
      output_tokens |-> 0,
      cache_creation_tokens |-> 0,
      cache_read_tokens |-> 0,
      total_tokens |-> 0,
      entries |-> << >>,
      sent_messages_count |-> 0,
      user_prompt_count |-> 0,
      assistant_message_count |-> 0,
      multiplication_factor |-> << 77, 10 >>,   \* 7.7 as a fraction
      prompt_timestamps |-> << >>,
      per_model_stats |-> << >> ]                \* the empty dict

(***************************************************************************)
(* Content of a message.  The content field of an entry names one of the   *)
(* sample contents below; a sample is described by                         *)
(*   form      "str" a string, "list_text" a list whose first element has  *)
(*             a text, "list_tool_result" a list whose first element has   *)
(*             type tool_result, "list_other" a list whose first element   *)
(*             has neither, "none" no content,                             *)
(*   len       the length of the text,                                     *)
(*   stripped  the length of text.strip(),                                 *)
(*   prefix    the skip pattern the text starts with, "" when none.        *)
(***************************************************************************)
MAX_PROMPT_LENGTH == 500

\* lines 316-334
skip_patterns ==
    { "[Request interrupted", "(no content)", "Caveat: The messages below",
      "<user-memory-input>", "This session is being continued from a previous conversation",
      "Analysis:", "Summary:", "Key technical patterns:", "Important errors and fixes:",
      "Looking at this conversation", "Primary Request and Intent:",
      "Files and Code Sections:", "Problem Solving:", "Pending Tasks:", "Current Work:",
      "Optional Next Step:" }

Sample(form, len, stripped, prefix) ==
    [ form |-> form, len |-> len, stripped |-> stripped, prefix |-> prefix ]

Contents ==
    { "text", "text499", "long", "empty", "blank", "indented", "interrupt", "no_content",
      "caveat", "memory", "continued", "summary", "text_list", "image_list", "tool_result",
      "none" }

sample(content) ==
    CASE content = "text"        -> Sample("str", 12, 12, "")
      [] content = "text499"     -> Sample("str", MAX_PROMPT_LENGTH - 1, MAX_PROMPT_LENGTH - 1, "")
      [] content = "long"        -> Sample("str", MAX_PROMPT_LENGTH, MAX_PROMPT_LENGTH, "")
      [] content = "empty"       -> Sample("str", 0, 0, "")
      [] content = "blank"       -> Sample("str", 3, 0, "")
      \* a skip pattern after a leading blank: no prefix match
      [] content = "indented"    -> Sample("str", 30, 29, "")
      [] content = "interrupt"   -> Sample("list_text", 40, 40, "[Request interrupted")
      [] content = "no_content"  -> Sample("str", 12, 12, "(no content)")
      [] content = "caveat"      -> Sample("str", 200, 200, "Caveat: The messages below")
      [] content = "memory"      -> Sample("str", 80, 80, "<user-memory-input>")
      [] content = "continued"   -> Sample("str", 400, 400,
                                      "This session is being continued from a previous conversation")
      [] content = "summary"     -> Sample("str", 90, 90, "Summary:")
      [] content = "text_list"   -> Sample("list_text", 12, 12, "")
      [] content = "image_list"  -> Sample("list_other", 0, 0, "")
      [] content = "tool_result" -> Sample("list_tool_result", 0, 0, "")
      [] OTHER                   -> Sample("none", 0, 0, "")

\* lines 287-291
is_tool_result(content) == sample(content).form = "list_tool_result"

\* lines 306-312: the text the filters look at, "" when the content has none
text_content(content) ==
    IF sample(content).form \in { "str", "list_text" } THEN sample(content)
    ELSE Sample("str", 0, 0, "")

\* a length test that lets 500 characters through
short_enough_inclusive(len) == len <= MAX_PROMPT_LENGTH

\* line 340
short_enough(len) == len < MAX_PROMPT_LENGTH

\* lines 337-340: text_content and text_content.strip() and no skip prefix and len < 500
is_actual_user_text(content) ==
    LET text == text_content(content)
    IN /\ text.len > 0
       /\ text.stripped > 0
       /\ text.prefix \notin skip_patterns
       /\ short_enough(text.len)

(***************************************************************************)
(* _add_entry_to_block: the block after the call                           *)
(***************************************************************************)
\* lines 278-350: the prompt and message counters
count_prompt(b, e) ==
    IF e.type = "user" /\ ~is_tool_result(e.content) /\ is_actual_user_text(e.content)
    THEN [b EXCEPT !.user_prompt_count = @ + 1,
                   !.prompt_timestamps = Append(@, e.timestamp)]
    ELSE IF e.type = "assistant"
    THEN [b EXCEPT !.assistant_message_count = @ + 1]
    ELSE b

\* line 198: the model of an entry; no modelled log line names one
model_of(e) == "unknown"

\* lines 387-395: the stats of a model not seen in the block before
NewModelStats ==
    [ input_tokens |-> 0, output_tokens |-> 0, cache_creation_tokens |-> 0,
      cache_read_tokens |-> 0, entries_count |-> 0 ]

\* lines 386-403: the per-model stats after the entry
add_model_stats(per_model_stats, e) ==
    LET model == model_of(e)
        stats == IF model \in DOMAIN per_model_stats THEN per_model_stats[model] ELSE NewModelStats
        upd == [ input_tokens |-> stats.input_tokens + Get(e.usage, "input_tokens"),
                 output_tokens |-> stats.output_tokens + Get(e.usage, "output_tokens"),
                 cache_creation_tokens |-> stats.cache_creation_tokens
                                            + Get(e.usage, "cache_creation_input_tokens"),
                 cache_read_tokens |-> stats.cache_read_tokens
                                        + Get(e.usage, "cache_read_input_tokens"),
                 entries_count |-> stats.entries_count + 1 ]
    IN [ m \in DOMAIN per_model_stats \cup {model} |->
            IF m = model THEN upd ELSE per_model_stats[m] ]

\* lines 352-403: the token counters and the per-model stats
add_usage(b, e) ==
    IF DOMAIN e.usage = {}
    THEN b
    ELSE LET i == b.input_tokens + Get(e.usage, "input_tokens")
             o == b.output_tokens + Get(e.usage, "output_tokens")
         IN [b EXCEPT !.input_tokens = i,
                      !.output_tokens = o,
                      !.cache_creation_tokens = @ + Get(e.usage, "cache_creation_input_tokens"),
                      !.cache_read_tokens = @ + Get(e.usage, "cache_read_input_tokens"),
                      !.total_tokens = i + o,
                      !.per_model_stats = add_model_stats(@, e)]

\* line 296-304: a user entry that is no tool result, in an active block, dated
\* before today's midnight, makes the function return right after the append
returns_early(b, e, t) ==
    /\ e.type = "user"
    /\ ~is_tool_result(e.content)
    /\ b.is_active
    /\ e.timestamp < today_midnight(t)

add_entry_to_block(b, e, t) ==
    LET b1 == [b EXCEPT !.entries = Append(@, e)]
    IN IF returns_early(b, e, t) THEN b1 ELSE add_usage(count_prompt(b1, e), e)

(***************************************************************************)
(* _create_session_blocks                                                  *)
(***************************************************************************)
\* the test of line 239 with the window closed at its end
past_current_block_strict(timestamp, end_time) == timestamp > end_time

\* line 239, second disjunct: the entry is not covered by the current block
past_current_block(timestamp, end_time) == timestamp >= end_time

\* lines 235-251: the loop over the entries; the current block is the last one
RECURSIVE create_loop(_, _, _, _)
create_loop(es, i, blocks, t) ==
    IF i > Len(es) THEN blocks
    ELSE LET e == es[i]
             n == Len(blocks)
             fresh == n = 0 \/ past_current_block(e.timestamp, blocks[n].end_time)
             start == round_to_hour(e.timestamp)
             cur == IF fresh THEN SessionBlock(start, start + SessionDuration) ELSE blocks[n]
             upd == add_entry_to_block(cur, e, t)
         IN create_loop(es, i + 1,
                        IF fresh THEN Append(blocks, upd) ELSE [blocks EXCEPT ![n] = upd],
                        t)

\* lines 253-269: finalisation of one block
finalize_block(b, t) ==
    IF Len(b.entries) = 0 THEN b
    ELSE [b EXCEPT !.actual_end_time = b.entries[Len(b.entries)].timestamp,
                   !.sent_messages_count = Len(b.entries),
                   !.multiplication_factor =
                        IF b.user_prompt_count > 0
                        THEN << b.assistant_message_count, b.user_prompt_count >>
                        ELSE @,
                   !.is_active = IF b.end_time > t THEN TRUE ELSE @]

create_session_blocks(es, t) ==
    LET blocks == create_loop(es, 1, << >>, t)
    IN [i \in 1..Len(blocks) |-> finalize_block(blocks[i], t)]

(***************************************************************************)
(* _merge_new_entries                                                      *)
(***************************************************************************)
\* list.sort(key=lambda b: b.start_time): a stable sort
RECURSIVE insert_by_start(_, _)
insert_by_start(sorted, b) ==
    IF Len(sorted) = 0 THEN << b >>
    ELSE IF sorted[Len(sorted)].start_time <= b.start_time THEN Append(sorted, b)
    ELSE Append(insert_by_start(SubSeq(sorted, 1, Len(sorted) - 1), b), sorted[Len(sorted)])

RECURSIVE sort_by_start(_)
sort_by_start(blocks) ==
    IF Len(blocks) = 0 THEN << >>
    ELSE insert_by_start(sort_by_start(SubSeq(blocks, 1, Len(blocks) - 1)), blocks[Len(blocks)])

\* a merge that finds no block for any entry
belongs_to_none(b, timestamp) == FALSE

\* line 486-488: the entry belongs to this block
belongs_to(b, timestamp) ==
    \/ b.start_time <= timestamp /\ timestamp <= b.end_time
    \/ b.is_active /\ timestamp >= b.start_time /\ timestamp <= b.start_time + 5 * Hour

\* a gap threshold of 30 minutes
extends_block_wide(b, timestamp) ==
    /\ 0 < timestamp - b.end_time
    /\ timestamp - b.end_time <= 6 * SESSION_GAP_MINUTES * Minute

\* line 504-505: the entry is within the gap after this block's end
extends_block(b, timestamp) ==
    /\ 0 < timestamp - b.end_time
    /\ timestamp - b.end_time <= SESSION_GAP_MINUTES * Minute

\* the first index of blocks satisfying P, 0 when there is none
first_index(blocks, P(_)) ==
    IF \E i \in 1..Len(blocks) : P(blocks[i])
    THEN CHOOSE i \in 1..Len(blocks) : P(blocks[i]) /\ \A j \in 1..(i - 1) : ~P(blocks[j])
    ELSE 0

\* lines 480-526: one iteration of the loop over new_entries
merge_one(blocks, e, t) ==
    LET timestamp == e.timestamp
        InBlock(b) == belongs_to(b, timestamp)
        Gap(b) == extends_block(b, timestamp)
        i == first_index(blocks, InBlock)
        j == first_index(blocks, Gap)
    IN IF i > 0
       THEN [blocks EXCEPT ![i] =
                [add_entry_to_block(blocks[i], e, t) EXCEPT
                    !.end_time = IF timestamp > @ THEN timestamp ELSE @]]
       ELSE IF j > 0
       THEN [blocks EXCEPT ![j] =
                [add_entry_to_block(blocks[j], e, t) EXCEPT !.end_time = timestamp]]
       ELSE sort_by_start(Append(blocks,
                add_entry_to_block(SessionBlock(timestamp, timestamp + SessionDuration), e, t)))

RECURSIVE merge_loop(_, _, _, _)
merge_loop(blocks, es, i, t) ==
    IF i > Len(es) THEN blocks
    ELSE merge_loop(merge_one(blocks, es[i], t), es, i + 1, t)

\* lines 528-538: the active flag of the last block
update_active(blocks, t) ==
    IF Len(blocks) = 0 THEN blocks
    ELSE LET last == blocks[Len(blocks)]
         IN IF t - last.start_time < 5 * Hour
            THEN [blocks EXCEPT ![Len(blocks)].is_active =
                        (t - last.end_time < IDLE_MINUTES * Minute)]
            ELSE blocks

merge_new_entries(blocks, new_entries, t) ==
    update_active(merge_loop(blocks, new_entries, 1, t), t)

(***************************************************************************)
(* _load_usage_entries                                                     *)
(*                                                                         *)
(* A file is [readable, lines]; a line is a record with                    *)
(*   kind  "json"    a JSON object,                                        *)
(*         "blank"   an empty or whitespace-only line,                     *)
(*         "badjson" text json.loads rejects,                              *)
(*         "notobj"  JSON that is no object (entry.get raises),            *)
(*         "badenc"  bytes the text decoder rejects,                       *)
(*   and the fields of the object: message_id, request_id (NoId when       *)
(*   missing or empty), timestamp (NoTime when missing, BadTime when       *)
(*   fromisoformat rejects it), type, content and usage.                   *)
(***************************************************************************)
BadTime == -2
NoHours == -1                \* hours_back = None

has_tokens(usage) ==
    \/ Get(usage, "input_tokens") > 0
    \/ Get(usage, "output_tokens") > 0
    \/ Get(usage, "cache_creation_input_tokens") > 0
    \/ Get(usage, "cache_read_input_tokens") > 0

\* line 159: both identifiers are present
has_dedup_key(line) == line.message_id # NoId /\ line.request_id # NoId

\* line 160: f"{message_id}:{request_id}"
unique_hash(line) == << line.message_id, line.request_id >>

\* lines 161-162: the line is discarded as a duplicate
is_duplicate(line, seen_hashes) == has_dedup_key(line) /\ unique_hash(line) \in seen_hashes

\* a dedup step that records nothing
record_hash_never(line, seen_hashes) == seen_hashes

\* lines 159-163: seen_hashes after the line's dedup step
record_hash(line, seen_hashes) ==
    IF line.kind = "json" /\ has_dedup_key(line)
    THEN seen_hashes \cup {unique_hash(line)}
    ELSE seen_hashes

\* lines 165-193: the checks a line passes after the dedup step
passes_filters(line, cutoff_time) ==
    /\ line.timestamp # NoTime
    /\ line.timestamp # BadTime
    /\ ~(cutoff_time # NoTime /\ line.timestamp < cutoff_time)
    /\ ~(line.type = "assistant" /\ DOMAIN line.usage = {})
    /\ ~(line.type = "assistant" /\ ~has_tokens(line.usage))

\* lines 148-212: the line is appended to entries
line_is_stored(line, seen_hashes, cutoff_time) ==
    /\ line.kind = "json"
    /\ ~is_duplicate(line, seen_hashes)
    /\ passes_filters(line, cutoff_time)

\* lines 196-204
make_entry(line, f, l) ==
    [ timestamp |-> line.timestamp,
      usage |-> line.usage,
      message_id |-> line.message_id,
      request_id |-> line.request_id,
      type |-> line.type,
      content |-> line.content,
      src |-> << f, l >> ]

\* line 147: iterating the file raises at bytes the text decoder rejects, which
\* leaves the loop over the lines (the handler of line 216 is outside it).  The
\* decoder works on chunks, so the lines of the failing chunk that precede the
\* bad one are not delivered either: the number of lines delivered is any
\* number below the position of the first undecodable line.
delivered_choices(lines) ==
    LET bad == { l \in 1..Len(lines) : lines[l].kind = "badenc" }
    IN IF bad = {} THEN { Len(lines) }
       ELSE 0..((CHOOSE l \in bad : \A k \in bad : l <= k) - 1)

\* one choice per file
deliveries(fs) ==
    { d \in [1..Len(fs) -> UNION { delivered_choices(fs[f].lines) : f \in 1..Len(fs) }] :
        \A f \in 1..Len(fs) : d[f] \in delivered_choices(fs[f].lines) }

\* every line of every file is delivered (no file holds an undecodable line)
fully_delivered(fs) == [f \in 1..Len(fs) |-> Len(fs[f].lines)]

\* lines 147-212: lines l..last of file f; acc is [entries, seen]
RECURSIVE load_lines(_, _, _, _, _, _)
load_lines(lines, f, l, last, acc, cutoff_time) ==
    IF l > last THEN acc
    ELSE load_lines(lines, f, l + 1, last,
            [ entries |-> IF line_is_stored(lines[l], acc.seen, cutoff_time)
                          THEN Append(acc.entries, make_entry(lines[l], f, l))
                          ELSE acc.entries,
              seen |-> record_hash(lines[l], acc.seen) ],
            cutoff_time)

\* lines 144-217: the loop over the files; a file that cannot be opened is skipped
RECURSIVE load_files(_, _, _, _, _)
load_files(fs, f, delivered, acc, cutoff_time) ==
    IF f > Len(fs) THEN acc
    ELSE load_files(fs, f + 1, delivered,
            IF fs[f].readable
            THEN load_lines(fs[f].lines, f, 1, delivered[f], acc, cutoff_time)
            ELSE acc,
            cutoff_time)

\* entries.sort(key=lambda e: e['timestamp']): a stable sort
RECURSIVE insert_by_timestamp(_, _)
insert_by_timestamp(sorted, e) ==
    IF Len(sorted) = 0 THEN << e >>
    ELSE IF sorted[Len(sorted)].timestamp <= e.timestamp THEN Append(sorted, e)
    ELSE Append(insert_by_timestamp(SubSeq(sorted, 1, Len(sorted) - 1), e), sorted[Len(sorted)])

RECURSIVE sort_by_timestamp(_)
sort_by_timestamp(es) ==
    IF Len(es) = 0 THEN << >>
    ELSE insert_by_timestamp(sort_by_timestamp(SubSeq(es, 1, Len(es) - 1)), es[Len(es)])

\* lines 135-137: hours_back of None or 0 gives no cutoff
cutoff_for(hours_back, t) ==
    IF hours_back = NoHours \/ hours_back = 0 THEN NoTime ELSE t - hours_back * Hour

load_usage_entries(fs, hours_back, t, delivered) ==
    sort_by_timestamp(
        load_files(fs, 1, delivered, [entries |-> << >>, seen |-> {}],
                   cutoff_for(hours_back, t)).entries)

(***************************************************************************)
(* Values of the variables a specification does not use                    *)
(***************************************************************************)
NoBlock == SessionBlock(0, 0)
NoEntry == [ timestamp |-> NoTime, usage |-> EmptyUsage, message_id |-> NoId,
             request_id |-> NoId, type |-> "unknown", content |-> "none", src |-> << 0, 0 >> ]

Idle ==
    /\ hist_pc = "idle" /\ old_blocks = << >>
    /\ reader_pc = "idle" /\ observed = << >>

\* no dict was handed to the UI thread yet
NoData == [ session_start |-> NoTime ]

\* DataUpdateWorker.__init__, main.py lines 67-75: the thread is not started
WorkerIdle ==
    /\ running = TRUE
    /\ worker_pc = "created"
    /\ slept = 0
    /\ emitted = NoData
    /\ last_historical_update = NoTime

\* AdaptiveBoundsCalculator.__init__, adaptive_bounds.py lines 29-32
BoundsIdle ==
    /\ recent_multipliers = << >>
    /\ pattern_history = << >>

\* The shape parameters of a LimitBelief are floats that are multiples of 0.5
\* (the priors are whole numbers and update adds 0.5, 1.0, 1.5 or 2.0); alpha
\* and beta hold them in halves, so that alpha = 8 is the float 4.0.
\* LimitBelief(alpha, beta, scale), bayesian_limits.py lines 17-23
LimitBelief(alpha, beta, scale) == [ alpha |-> 2 * alpha, beta |-> 2 * beta, scale |-> scale ]

\* the second components of the priors of _initialize_priors, lines 94-112;
\* a plan name that is not a key takes the priors of max20x
plan_priors(plan_name) ==
    CASE plan_name = "pro" -> [ tokens |-> 30000, messages |-> 60, prompts |-> 100 ]
      [] plan_name = "max5x" -> [ tokens |-> 100000, messages |-> 500, prompts |-> 200 ]
      [] OTHER -> [ tokens |-> 400000, messages |-> 2000, prompts |-> 800 ]

\* _initialize_priors, lines 115-119
initialize_priors(plan_name) ==
    [ tokens |-> LimitBelief(4, 2, plan_priors(plan_name).tokens),
      messages |-> LimitBelief(8, 2, plan_priors(plan_name).messages),
      prompts |-> LimitBelief(6, 3, plan_priors(plan_name).prompts) ]

\* BayesianLimitEstimator.__init__ with the default plan, lines 84-88, and the
\* LimitBelief that the tests of the repository construct
EstimatorIdle ==
    /\ limits = initialize_priors("max20x")
    /\ total_observations = 0
    /\ belief = LimitBelief(4, 2, 1000)

(***************************************************************************)
(* SpecRebuild: _create_session_blocks on any time-ordered entry list, and *)
(* _merge_new_entries of a suffix into the rebuild of a prefix.            *)
(***************************************************************************)
MaxEntries == 3

Epoch == 10 * Day        \* a UTC midnight

\* timestamps around two session windows: inside the first, at its very end,
\* shortly after it, later in the following hour, and far later
RebuildTimes == { Epoch + 10 * Hour + 30 * Minute,
                  Epoch + 15 * Hour,
                  Epoch + 15 * Hour + 2 * Minute,
                  Epoch + 15 * Hour + 30 * Minute,
                  Epoch + 21 * Hour }

RebuildNows == { Epoch + 21 * Hour + 5 * Minute, Epoch + Day + 2 * Hour }

AssistantUsage == [ input_tokens |-> 3, output_tokens |-> 2,
                    cache_creation_input_tokens |-> 0, cache_read_input_tokens |-> 7 ]

\* what a rebuild is given: entries as _load_usage_entries stores them
EntryShapes ==
    { [ type |-> "user", content |-> "text", usage |-> EmptyUsage ],
      [ type |-> "assistant", content |-> "none", usage |-> AssistantUsage ] }

EntryLists ==
    UNION { { [ i \in 1..n |->
                 [ timestamp |-> ts[i], usage |-> sh[i].usage, message_id |-> NoId,
                   request_id |-> NoId, type |-> sh[i].type, content |-> sh[i].content,
                   src |-> << 1, i >> ] ]
              : ts \in { x \in [1..n -> RebuildTimes] :
                            \A i \in 1..n : \A j \in 1..n : i < j => x[i] <= x[j] },
                sh \in [1..n -> EntryShapes] }
            : n \in 0..MaxEntries }

InitRebuild ==
    /\ now \in RebuildNows
    /\ files = << >>
    /\ entries \in EntryLists
    /\ session_blocks = << >>
    /\ blocks_last_updated = NoTime
    /\ full_data_loaded = FALSE
    /\ Idle
    /\ WorkerIdle
    /\ EstimatorIdle
    /\ BoundsIdle
    /\ block = NoBlock
    /\ entry = NoEntry
    /\ prev = 0
    /\ phase = "input"
    /\ ticks = 0

\* blocks = self._create_session_blocks(entries)
FullRebuild ==
    /\ phase = "input"
    /\ session_blocks' = create_session_blocks(entries, now)
    /\ phase' = "rebuilt"
    /\ UNCHANGED << estimator_vars, worker_vars, bounds_vars, now, files, entries, blocks_last_updated, full_data_loaded,
                    hist_pc, old_blocks, reader_pc, observed, block, entry, prev, ticks >>

\* a rebuild from the first k entries only
PrefixRebuild ==
    /\ phase = "input"
    /\ \E k \in 1..Len(entries) :
          /\ session_blocks' = create_session_blocks(SubSeq(entries, 1, k), now)
          /\ prev' = k
    /\ phase' = "prefix"
    /\ UNCHANGED << estimator_vars, worker_vars, bounds_vars, now, files, entries, blocks_last_updated, full_data_loaded,
                    hist_pc, old_blocks, reader_pc, observed, block, entry, ticks >>

\* self._merge_new_entries(the remaining entries)
MergeRest ==
    /\ phase = "prefix"
    /\ session_blocks' =
          merge_new_entries(session_blocks, SubSeq(entries, prev + 1, Len(entries)), now)
    /\ phase' = "merged"
    /\ UNCHANGED << estimator_vars, worker_vars, bounds_vars, now, files, entries, blocks_last_updated, full_data_loaded,
                    hist_pc, old_blocks, reader_pc, observed, block, entry, prev, ticks >>

NextRebuild == FullRebuild \/ PrefixRebuild \/ MergeRest

SpecRebuild == InitRebuild /\ [][NextRebuild]_vars

(***************************************************************************)
(* Properties of a block list                                              *)
(***************************************************************************)
\* the places (block index, position) at which entry e is stored
places_of(blocks, e) ==
    { p \in UNION { { << i, k >> : k \in 1..Len(blocks[i].entries) } : i \in 1..Len(blocks) } :
        blocks[p[1]].entries[p[2]] = e }

\* no two blocks' [start, end) intervals share an instant
half_open_disjoint(blocks) ==
    \A i \in 1..Len(blocks) : \A j \in 1..Len(blocks) :
        i # j => \/ blocks[i].end_time <= blocks[j].start_time
                 \/ blocks[j].end_time <= blocks[i].start_time

\* no two blocks' [start, end] intervals share an instant
closed_disjoint(blocks) ==
    \A i \in 1..Len(blocks) : \A j \in 1..Len(blocks) :
        i # j => \/ blocks[i].end_time < blocks[j].start_time
                 \/ blocks[j].end_time < blocks[i].start_time

sorted_by_start(blocks) ==
    \A i \in 1..Len(blocks) : \A j \in 1..Len(blocks) :
        i < j => blocks[i].start_time <= blocks[j].start_time

\* C1: after a full rebuild of any time-ordered entry list the blocks'
\* [start_time, end_time) intervals are pairwise disjoint, and every input
\* entry is stored exactly once, in a block whose interval holds its timestamp.
C1_WindowPartition ==
    phase = "rebuilt" =>
        /\ half_open_disjoint(session_blocks)
        /\ \A k \in 1..Len(entries) :
              /\ Cardinality(places_of(session_blocks, entries[k])) = 1
              /\ \A p \in places_of(session_blocks, entries[k]) :
                    /\ session_blocks[p[1]].start_time <= entries[k].timestamp
                    /\ entries[k].timestamp < session_blocks[p[1]].end_time

\* a rebuild that made two blocks, the second opened by an entry stamped
\* exactly at the first block's end, and one block holding two entries
C1_Witness ==
    /\ phase = "rebuilt"
    /\ Len(session_blocks) = 2
    /\ session_blocks[2].entries[1].timestamp = session_blocks[1].end_time
    /\ \E i \in 1..2 : Len(session_blocks[i].entries) = 2

\* what C3 compares: boundaries, entry assignment and totals of each block
session_view(blocks) ==
    [ i \in 1..Len(blocks) |->
        [ start_time |-> blocks[i].start_time,
          end_time |-> blocks[i].end_time,
          entries |-> blocks[i].entries,
          total_tokens |-> blocks[i].total_tokens,
          user_prompt_count |-> blocks[i].user_prompt_count,
          assistant_message_count |-> blocks[i].assistant_message_count ] ]

\* C3: a rebuild of a prefix followed by a merge of the rest gives the same
\* boundaries, entry assignment and totals as one rebuild of the whole list.
C3_MergeEqualsRebuild ==
    phase = "merged" =>
        session_view(session_blocks) = session_view(create_session_blocks(entries, now))

\* the block list _merge_new_entries holds when it reaches the k-th of the
\* remaining entries
merged_so_far(k) ==
    merge_loop(session_blocks, SubSeq(entries, prev + 1, prev + k - 1), 1, now)

\* blocks b and a differ at index i only
only_changed(b, a, i) ==
    /\ Len(a) = Len(b)
    /\ \A j \in 1..Len(b) : j # i => a[j] = b[j]

\* C31: an incremental merge assigns each new entry to exactly one block:
\* (1) to a block whose [start, end] contains its timestamp, or an active
\* block whose 5-hour window contains it; (2) otherwise to a block whose end
\* is at most 5 minutes before the timestamp, and that block's end_time
\* becomes the timestamp; (3) otherwise to a new block.  Steps (1) and (2)
\* create no block and change no block other than the one chosen.
C31_MergeRouting ==
    [][MergeRest =>
        \A k \in 1..(Len(entries) - prev) :
            LET b == merged_so_far(k)
                a == merged_so_far(k + 1)
                e == entries[prev + k]
                ts == e.timestamp
                contains(x) == \/ x.start_time <= ts /\ ts <= x.end_time
                               \/ x.is_active /\ x.start_time <= ts
                                              /\ ts <= x.start_time + 5 * Hour
                near(x) == 0 < ts - x.end_time /\ ts - x.end_time <= 5 * Minute
                one == \E i \in 1..Len(b) : contains(b[i])
                two == ~one /\ \E i \in 1..Len(b) : near(b[i])
            IN /\ Cardinality(places_of(a, e)) = 1
               /\ one => \E i \in 1..Len(b) :
                            /\ contains(b[i])
                            /\ places_of(a, e) = { << i, Len(b[i].entries) + 1 >> }
                            /\ only_changed(b, a, i)
               /\ two => \E i \in 1..Len(b) :
                            /\ near(b[i])
                            /\ places_of(a, e) = { << i, Len(b[i].entries) + 1 >> }
                            /\ a[i].end_time = ts
                            /\ only_changed(b, a, i)
               /\ (~one /\ ~two) =>
                     /\ Len(a) = Len(b) + 1
                     /\ \E i \in 1..Len(a) :
                           /\ a[i].entries = << e >>
                           /\ \A j \in 1..Len(b) : \E l \in 1..Len(a) : l # i /\ a[l] = b[j]]_vars

\* a merge that put one entry into the block it found, extended that block's
\* end by two minutes for the next and created a block for the last
C31_Witness ==
    /\ phase = "merged"
    /\ prev = 1
    /\ Len(entries) = 3
    /\ entries[1].timestamp = Epoch + 10 * Hour + 30 * Minute
    /\ entries[2].timestamp = Epoch + 15 * Hour + 2 * Minute
    /\ entries[3].timestamp = Epoch + 15 * Hour + 30 * Minute
    /\ Len(session_blocks) = 2
    /\ Len(session_blocks[1].entries) = 2
    /\ session_blocks[1].end_time = Epoch + 15 * Hour + 2 * Minute

\* C33: a block with user_prompt_count > 0 has multiplication_factor equal
\* to assistant_message_count / user_prompt_count in every state reached by
\* rebuilds and incremental merges (get_current_session_prompts returns the
\* stored field of the current block).
C33_FactorIsRatio ==
    \A i \in 1..Len(session_blocks) :
        session_blocks[i].user_prompt_count > 0 =>
            session_blocks[i].multiplication_factor[1] * session_blocks[i].user_prompt_count
            = session_blocks[i].assistant_message_count
              * session_blocks[i].multiplication_factor[2]

(***************************************************************************)
(* _update_session_blocks                                                  *)
(*                                                                         *)
(* m is the manager's cache: [session_blocks, blocks_last_updated,         *)
(* full_data_loaded]; hours_back is NoHours for None.  The files of the    *)
(* specifications that refresh hold no undecodable line.                   *)
(***************************************************************************)

\* a cache that stays valid for 20 seconds only
cache_valid_short(m, force_refresh, hours_back, t) ==
    /\ ~force_refresh
    /\ m.blocks_last_updated # NoTime
    /\ hours_back = NoHours
    /\ t - m.blocks_last_updated < cache_duration_seconds - 10

\* lines 415-417: the cache is still valid and the call returns at once
cache_valid(m, force_refresh, hours_back, t) ==
    /\ ~force_refresh
    /\ m.blocks_last_updated # NoTime
    /\ hours_back = NoHours
    /\ t - m.blocks_last_updated < cache_duration_seconds

\* a retention that drops nothing
retained_all(b, t) == TRUE

\* line 444-445: a block survives retention
retained(b, t) == b.end_time >= t - RETENTION_HOURS * Hour \/ b.is_active

retain(blocks, t) == SelectSeq(blocks, LAMBDA b : retained(b, t))

\* lines 452-453: the latest timestamp already held by a block, NoTime when none
latest_existing(blocks) ==
    LET stamps == UNION { { blocks[i].entries[k].timestamp : k \in 1..Len(blocks[i].entries) }
                          : i \in 1..Len(blocks) }
    IN IF stamps = {} THEN NoTime
       ELSE CHOOSE x \in stamps : \A y \in stamps : y <= x

\* the filter of line 457 letting the latest timestamp itself through
is_new_entry_inclusive(timestamp, latest) == latest = NoTime \/ timestamp >= latest

\* line 456-457: the entry is processed by the incremental refresh
is_new_entry(timestamp, latest) == latest = NoTime \/ timestamp > latest

\* lines 438-462: the incremental branch
incremental_blocks(blocks, fs, t) ==
    LET kept == retain(blocks, t)
        recent_entries == load_usage_entries(fs, INCREMENTAL_HOURS, t, fully_delivered(fs))
        latest == latest_existing(kept)
        new_entries == SelectSeq(recent_entries, LAMBDA e : is_new_entry(e.timestamp, latest))
    IN IF Len(new_entries) > 0 THEN merge_new_entries(kept, new_entries, t) ELSE kept

update_session_blocks(m, force_refresh, hours_back, fs, t) ==
    IF cache_valid(m, force_refresh, hours_back, t) THEN m
    ELSE IF hours_back # NoHours
    THEN [ m EXCEPT !.session_blocks =
                        create_session_blocks(load_usage_entries(fs, hours_back, t, fully_delivered(fs)), t),
                    !.blocks_last_updated = t ]
    ELSE IF ~m.full_data_loaded
    THEN [ session_blocks |->
                create_session_blocks(load_usage_entries(fs, quick_start_hours, t, fully_delivered(fs)), t),
           blocks_last_updated |-> t,
           full_data_loaded |-> TRUE ]
    ELSE [ m EXCEPT !.session_blocks = incremental_blocks(m.session_blocks, fs, t),
                    !.blocks_last_updated = t ]

\* which branch of _update_session_blocks a call takes
branch_of(m, force_refresh, hours_back, t) ==
    IF cache_valid(m, force_refresh, hours_back, t) THEN "suppressed"
    ELSE IF hours_back # NoHours THEN "explicit"
    ELSE IF ~m.full_data_loaded THEN "first"
    ELSE "incremental"

\* get_usage_data, line 716: hours to load for a since_date
hours_needed(since_date, t) == ((t - since_date) \div Hour) + 24

\* a call that ends without line 1010
restored_blocks_kept(saved, current) == current

\* get_historical_session_maximums, line 1010: what the call leaves in _session_blocks
restored_blocks(saved, current) == saved

(***************************************************************************)
(* Spec: one thread (the worker of main.py) using one reader, while the    *)
(* clock advances and the log file grows.                                  *)
(***************************************************************************)
MaxTicks == 3            \* clock advances in a run
MaxAppends == 1          \* lines appended to the log file in a run

StartNow == Epoch + 14 * Hour + 4 * Minute

\* clock steps: within the gap threshold, up to the next full hour, a day
Deltas == { 4 * Minute, 56 * Minute, Day }

\* what the assistant appends while the program runs: its own messages
LineShapes ==
    { [ type |-> "assistant", content |-> "none", usage |-> AssistantUsage ] }

log_line(shape, timestamp) ==
    [ kind |-> "json", message_id |-> NoId, request_id |-> NoId, timestamp |-> timestamp,
      type |-> shape.type, content |-> shape.content, usage |-> shape.usage ]

\* the log as the program finds it at start-up: empty, or one assistant message
\* of half an hour ago, or assistant messages of two days before, of last night
\* and of this morning, the window of the last one ending in an hour
InitialLogs ==
    { << >>,
      << log_line([ type |-> "assistant", content |-> "none", usage |-> AssistantUsage ],
                  StartNow - 34 * Minute) >>,
      << log_line([ type |-> "assistant", content |-> "none", usage |-> AssistantUsage ],
                  StartNow - 2 * Day),
         log_line([ type |-> "assistant", content |-> "none", usage |-> AssistantUsage ],
                  Epoch + 4 * Hour + 30 * Minute),
         log_line([ type |-> "assistant", content |-> "none", usage |-> AssistantUsage ],
                  Epoch + 10 * Hour + 30 * Minute) >> }

appended(fs) == Cardinality({ l \in 1..Len(fs[1].lines) : fs[1].lines[l].timestamp >= StartNow })

manager == [ session_blocks |-> session_blocks,
             blocks_last_updated |-> blocks_last_updated,
             full_data_loaded |-> full_data_loaded ]

NoResult == [ op |-> "none" ]

Init ==
    /\ now = StartNow
    /\ \E lines \in InitialLogs : files = << [ readable |-> TRUE, lines |-> lines ] >>
    /\ entries = << >>
    /\ session_blocks = << >>
    /\ blocks_last_updated = NoTime
    /\ full_data_loaded = FALSE
    /\ Idle
    /\ WorkerIdle
    /\ EstimatorIdle
    /\ BoundsIdle
    /\ block = NoBlock
    /\ entry = NoEntry
    /\ prev = NoResult
    /\ phase = "run"
    /\ ticks = 0

\* the wall clock advances
Advance ==
    /\ ticks < MaxTicks
    /\ \E d \in Deltas : now' = now + d
    /\ ticks' = ticks + 1
    /\ UNCHANGED << estimator_vars, worker_vars, bounds_vars, files, entries, session_blocks, blocks_last_updated, full_data_loaded,
                    hist_pc, old_blocks, reader_pc, observed, block, entry, prev, phase >>

\* the assistant appends a line, stamped with the current time, to the log
AppendLine ==
    /\ appended(files) < MaxAppends
    /\ \E shape \in LineShapes :
          files' = [ files EXCEPT ![1].lines = Append(@, log_line(shape, now)) ]
    /\ UNCHANGED << estimator_vars, worker_vars, bounds_vars, now, entries, session_blocks, blocks_last_updated, full_data_loaded,
                    hist_pc, old_blocks, reader_pc, observed, block, entry, prev, phase, ticks >>

\* the manager's cache becomes m
commit(m) ==
    /\ session_blocks' = m.session_blocks
    /\ blocks_last_updated' = m.blocks_last_updated
    /\ full_data_loaded' = m.full_data_loaded

\* self._update_session_blocks(), as _get_current_block and the rate queries call it
Refresh ==
    /\ hist_pc = "idle"
    /\ commit(update_session_blocks(manager, FALSE, NoHours, files, now))
    /\ UNCHANGED << estimator_vars, worker_vars, bounds_vars, now, files, entries, hist_pc, old_blocks, reader_pc, observed,
                    block, entry, prev, phase, ticks >>

\* get_usage_data(since_date) with since_date two days back, lines 713-720
UsageSince ==
    /\ hist_pc = "idle"
    /\ commit(update_session_blocks(manager, TRUE, hours_needed(now - 2 * Day, now), files, now))
    /\ UNCHANGED << estimator_vars, worker_vars, bounds_vars, now, files, entries, hist_pc, old_blocks, reader_pc, observed,
                    block, entry, prev, phase, ticks >>

\* lines 988-1007 and 1015-1021: the maxima over the completed sessions
RECURSIVE scan_maximums(_, _, _)
scan_maximums(blocks, i, acc) ==
    IF i > Len(blocks) THEN acc
    ELSE scan_maximums(blocks, i + 1,
            IF blocks[i].is_active THEN acc
            ELSE [ op |-> "maximums",
                   max_tokens |-> Max(acc.max_tokens, blocks[i].total_tokens),
                   max_messages |-> Max(acc.max_messages, blocks[i].sent_messages_count),
                   max_prompts |-> Max(acc.max_prompts, blocks[i].user_prompt_count),
                   sessions_analyzed |-> acc.sessions_analyzed + 1 ])

historical_maximums(blocks) ==
    scan_maximums(blocks, 1, [ op |-> "maximums", max_tokens |-> 0, max_messages |-> 0,
                               max_prompts |-> 0, sessions_analyzed |-> 0 ])

\* get_historical_session_maximums(days_back=7) run by the one thread
HistoricalMaximums ==
    /\ hist_pc = "idle"
    /\ LET m == update_session_blocks(manager, TRUE, HIST_DAYS_BACK * 24, files, now)
       IN /\ session_blocks' = restored_blocks(session_blocks, m.session_blocks)
          /\ blocks_last_updated' = m.blocks_last_updated
          /\ full_data_loaded' = m.full_data_loaded
          /\ prev' = historical_maximums(m.session_blocks)
    /\ UNCHANGED << estimator_vars, worker_vars, bounds_vars, now, files, entries, hist_pc, old_blocks, reader_pc, observed,
                    block, entry, phase, ticks >>

\* the same call when line 986 raises: _create_session_blocks fails on an entry
\* before line 425 assigns, and the exception leaves the call
HistoricalMaximumsRaises ==
    /\ hist_pc = "idle"
    /\ UNCHANGED << estimator_vars, worker_vars, bounds_vars, now, files, entries, session_blocks, blocks_last_updated, full_data_loaded,
                    hist_pc, old_blocks, reader_pc, observed, block, entry, prev, phase, ticks >>

Next ==
    \/ Advance
    \/ AppendLine
    \/ Refresh
    \/ UsageSince
    \/ HistoricalMaximums
    \/ HistoricalMaximumsRaises

Spec == Init /\ [][Next]_vars

(***************************************************************************)
(* Claims about the block list under refresh cycles (Spec)                 *)
(***************************************************************************)
\* every entry stored in the blocks, with its place
stored(blocks) ==
    UNION { { blocks[i].entries[k] : k \in 1..Len(blocks[i].entries) } : i \in 1..Len(blocks) }

RECURSIVE limit_tokens(_, _)
limit_tokens(es, i) ==
    IF i > Len(es) THEN 0
    ELSE Get(es[i].usage, "input_tokens") + Get(es[i].usage, "output_tokens")
         + limit_tokens(es, i + 1)

\* C2 as stated: the block list is sorted by start_time and no two blocks'
\* closed [start_time, end_time] intervals share an instant.
C2_SortedClosedDisjoint ==
    sorted_by_start(session_blocks) /\ closed_disjoint(session_blocks)

\* C2 as amended: after any sequence of rebuilds and incremental merges the
\* block list is sorted by start_time and no two blocks' half-open
\* [start_time, end_time) intervals share an instant.
C2_SortedHalfOpenDisjoint ==
    sorted_by_start(session_blocks) /\ half_open_disjoint(session_blocks)

\* a committed list of three blocks whose last block a merge created (a merge
\* never sets actual_end_time) next to blocks a rebuild made
C2_Witness ==
    /\ full_data_loaded
    /\ Len(session_blocks) = 3
    /\ session_blocks[3].actual_end_time = NoTime
    /\ session_blocks[1].actual_end_time # NoTime

\* C4: no log entry is aggregated twice: in every state each stored entry has
\* one place in the block list and a block's total_tokens does not exceed the
\* input+output tokens of its entries; and an incremental refresh stores only
\* entries stamped later than every entry that was, and still is, stored.
C4_AggregatedOnce ==
    /\ [](/\ \A e \in stored(session_blocks) : Cardinality(places_of(session_blocks, e)) = 1
          /\ \A i \in 1..Len(session_blocks) :
                session_blocks[i].total_tokens = limit_tokens(session_blocks[i].entries, 1))
    /\ [][(Refresh /\ full_data_loaded) =>
            \A e \in stored(session_blocks') \ stored(session_blocks) :
                \A o \in stored(session_blocks') \cap stored(session_blocks) :
                    o.timestamp < e.timestamp]_vars

\* an incremental refresh has merged a new entry into a block that already
\* held one: the earlier entry was loaded again and was not stored again
C4_Witness ==
    /\ full_data_loaded
    /\ \E i \in 1..Len(session_blocks) :
          /\ Len(session_blocks[i].entries) = 2
          /\ session_blocks[i].sent_messages_count = 1
          /\ session_blocks[i].entries[2].timestamp - session_blocks[i].entries[1].timestamp
                < INCREMENTAL_HOURS * Hour

\* C9: get_historical_session_maximums leaves _session_blocks as it found it,
\* whether it returns or the reload raises.
C9_BlocksRestored ==
    [][(HistoricalMaximums \/ HistoricalMaximumsRaises) => session_blocks' = session_blocks]_vars

\* the call has returned maxima taken over more completed sessions than the
\* committed list holds blocks
C9_Witness ==
    /\ prev.op = "maximums"
    /\ full_data_loaded
    /\ Len(session_blocks) > 0
    /\ prev.sessions_analyzed > Len(session_blocks)

\* lines 448-457: the entries an incremental refresh at t would merge
new_entries_of(blocks, fs, t) ==
    LET latest == latest_existing(retain(blocks, t))
    IN SelectSeq(load_usage_entries(fs, INCREMENTAL_HOURS, t, fully_delivered(fs)),
                 LAMBDA e : is_new_entry(e.timestamp, latest))

\* the step is a call of _update_session_blocks that takes the incremental branch
IncrementalRefresh ==
    /\ branch_of(manager, FALSE, NoHours, now) = "incremental"
    /\ Refresh

\* the timestamp of the latest entry of a block that has entries
last_entry_time(b) ==
    CHOOSE x \in { b.entries[k].timestamp : k \in 1..Len(b.entries) } :
        \A k \in 1..Len(b.entries) : b.entries[k].timestamp <= x

\* C14: after an incremental refresh that merged new entries, the last block
\* is flagged active exactly when less than the session duration has passed
\* since its start and less than 10 minutes since its last entry.
C14_ActiveIffRecent ==
    [][(IncrementalRefresh /\ Len(new_entries_of(session_blocks, files, now)) > 0) =>
        LET last == session_blocks'[Len(session_blocks')]
        IN last.is_active <=>
              /\ now - last.start_time < SessionDuration
              /\ now - last_entry_time(last) < IDLE_MINUTES * Minute]_vars

\* C15: after an incremental refresh every block still in the list is active
\* or ended within the last 24 hours, and every block that was flagged active
\* before the refresh is still in the list.
C15_RetentionHorizon ==
    [][IncrementalRefresh =>
        /\ \A i \in 1..Len(session_blocks') :
              \/ session_blocks'[i].is_active
              \/ session_blocks'[i].end_time >= now - RETENTION_HOURS * Hour
        /\ \A i \in 1..Len(session_blocks) :
              session_blocks[i].is_active =>
                 \E k \in 1..Len(session_blocks') :
                    session_blocks'[k].start_time = session_blocks[i].start_time]_vars

\* an incremental refresh has just dropped last night's block, which had ended
\* more than 24 hours before, and kept the block still flagged active whose
\* window also ended more than 24 hours before
C15_Witness ==
    /\ full_data_loaded
    /\ blocks_last_updated = now
    /\ Len(session_blocks) = 1
    /\ session_blocks[1].is_active
    /\ session_blocks[1].end_time < now - RETENTION_HOURS * Hour
    /\ Len(files[1].lines) >= 3

\* C30: every block, created by a full rebuild or by an incremental merge,
\* starts at its first entry's timestamp rounded down to the top of the
\* hour, so every block's start_time is hour-aligned in every reachable
\* state.
C30_BlocksHourAligned ==
    \A i \in 1..Len(session_blocks) : session_blocks[i].start_time % Hour = 0

(***************************************************************************)
(* SpecAdd: _add_entry_to_block on one block whose window spans a UTC      *)
(* midnight; the block is flagged active the way lines 266 and 536 do.     *)
(***************************************************************************)
MaxAdds == 3             \* entries added to the block in a run

AddStart == Epoch + 22 * Hour

AddNows == { Epoch + 23 * Hour, Epoch + Day + 30 * Minute }

AddTimes == { Epoch + 22 * Hour + 10 * Minute,
              Epoch + 23 * Hour + 50 * Minute,
              Epoch + Day + 10 * Minute }

UserUsage == [ input_tokens |-> 5, output_tokens |-> 0 ]

AddShapes ==
    { [ type |-> "user", content |-> "text", usage |-> EmptyUsage ],
      [ type |-> "user", content |-> "text", usage |-> UserUsage ],
      [ type |-> "user", content |-> "tool_result", usage |-> EmptyUsage ],
      [ type |-> "assistant", content |-> "none", usage |-> AssistantUsage ] }

InitAdd ==
    /\ now \in AddNows
    /\ files = << >>
    /\ entries = << >>
    /\ session_blocks = << >>
    /\ blocks_last_updated = NoTime
    /\ full_data_loaded = FALSE
    /\ Idle
    /\ WorkerIdle
    /\ EstimatorIdle
    /\ BoundsIdle
    /\ block = SessionBlock(AddStart, AddStart + SessionDuration)
    /\ entry = NoEntry
    /\ prev = 0
    /\ phase = "new"
    /\ ticks = 0

\* self._add_entry_to_block(block, entry)
AddEntry ==
    /\ ticks < MaxAdds
    /\ \E shape \in AddShapes, timestamp \in AddTimes :
          /\ timestamp <= now
          /\ \A k \in 1..Len(block.entries) : block.entries[k].timestamp <= timestamp
          /\ entry' = [ timestamp |-> timestamp, usage |-> shape.usage, message_id |-> NoId,
                        request_id |-> NoId, type |-> shape.type, content |-> shape.content,
                        src |-> << 1, ticks + 1 >> ]
          /\ block' = add_entry_to_block(block, entry', now)
    /\ ticks' = ticks + 1
    /\ phase' = "added"
    /\ UNCHANGED << estimator_vars, worker_vars, bounds_vars, now, files, entries, session_blocks, blocks_last_updated, full_data_loaded,
                    hist_pc, old_blocks, reader_pc, observed, prev >>

\* block.is_active = True, as the finalisation of a rebuild or the end of a merge sets it
MarkActive ==
    /\ ~block.is_active
    /\ now < block.end_time
    /\ block' = [ block EXCEPT !.is_active = TRUE ]
    /\ phase' = "flagged"
    /\ UNCHANGED << estimator_vars, worker_vars, bounds_vars, now, files, entries, session_blocks, blocks_last_updated, full_data_loaded,
                    hist_pc, old_blocks, reader_pc, observed, entry, prev, ticks >>

NextAdd == AddEntry \/ MarkActive

SpecAdd == InitAdd /\ [][NextAdd]_vars

\* C5: a call of _add_entry_to_block raises total_tokens by the entry's
\* input_tokens + output_tokens (cache tokens apart), so it never decreases.
C5_TotalTokensAdditive ==
    [][AddEntry =>
        /\ block'.total_tokens = block.total_tokens
              + Get(entry'.usage, "input_tokens") + Get(entry'.usage, "output_tokens")
        /\ block'.total_tokens >= block.total_tokens]_vars

\* C18: a user entry (no tool result) dated before today's UTC midnight that
\* is added to a block flagged active leaves the block as it was: entries,
\* user_prompt_count, prompt_timestamps and the token counters.
C18_OldPromptLeavesNoTrace ==
    [][(/\ ticks' = ticks + 1
        /\ block.is_active
        /\ entry'.type = "user"
        /\ ~is_tool_result(entry'.content)
        /\ entry'.timestamp < today_midnight(now)) =>
            /\ block'.entries = block.entries
            /\ block'.user_prompt_count = block.user_prompt_count
            /\ block'.prompt_timestamps = block.prompt_timestamps
            /\ block'.input_tokens = block.input_tokens
            /\ block'.output_tokens = block.output_tokens
            /\ block'.total_tokens = block.total_tokens]_vars

(***************************************************************************)
(* SpecLoad: _load_usage_entries on two files of a few lines each.         *)
(***************************************************************************)
MaxFileLines == 2        \* lines in a file

LoadNow == Epoch + 12 * Hour

json_line(message_id, request_id, timestamp, type, usage) ==
    [ kind |-> "json", message_id |-> message_id, request_id |-> request_id,
      timestamp |-> timestamp, type |-> type, content |-> "text", usage |-> usage ]

\* an assistant message of ten minutes ago with both identifiers; the same
\* identifiers on a message of two hours ago; a user message without
\* identifiers; the identifiers on an object without timestamp; a line of
\* undecodable bytes; a line that is no JSON
LoadLines ==
    { json_line(1, 1, LoadNow - 10 * Minute, "assistant", AssistantUsage),
      json_line(1, 1, LoadNow - 2 * Hour, "assistant", AssistantUsage),
      json_line(NoId, NoId, LoadNow - 5 * Minute, "user", EmptyUsage),
      json_line(1, 1, NoTime, "assistant", AssistantUsage),
      [ json_line(NoId, NoId, NoTime, "unknown", EmptyUsage) EXCEPT !.kind = "badenc" ],
      [ json_line(NoId, NoId, NoTime, "unknown", EmptyUsage) EXCEPT !.kind = "badjson" ] }

LoadFiles ==
    { [ readable |-> r, lines |-> ls ] :
        r \in BOOLEAN,
        ls \in UNION { [1..n -> LoadLines] : n \in 0..MaxFileLines } }

\* hours_back as the callers give it: None, or the incremental lookback
LoadHours == { NoHours, INCREMENTAL_HOURS }

InitLoad ==
    /\ now = LoadNow
    /\ files \in [1..2 -> LoadFiles]
    /\ entries = << >>
    /\ session_blocks = << >>
    /\ blocks_last_updated = NoTime
    /\ full_data_loaded = FALSE
    /\ Idle
    /\ WorkerIdle
    /\ EstimatorIdle
    /\ BoundsIdle
    /\ block = NoBlock
    /\ entry = NoEntry
    /\ prev = NoHours
    /\ phase = "files"
    /\ ticks = 0

\* entries = self._load_usage_entries(hours_back)
Load ==
    /\ phase = "files"
    /\ \E hours_back \in LoadHours, delivered \in deliveries(files) :
          /\ entries' = load_usage_entries(files, hours_back, now, delivered)
          /\ prev' = hours_back
    /\ phase' = "loaded"
    /\ UNCHANGED << estimator_vars, worker_vars, bounds_vars, now, files, session_blocks, blocks_last_updated, full_data_loaded,
                    hist_pc, old_blocks, reader_pc, observed, block, entry, ticks >>

\* the same call when every file is there a second time, under another name
LoadCopies ==
    /\ phase = "files"
    /\ \E hours_back \in LoadHours, delivered \in deliveries(files) :
          /\ entries' = load_usage_entries(files \o files, hours_back, now, delivered \o delivered)
          /\ prev' = hours_back
    /\ phase' = "loaded_copies"
    /\ UNCHANGED << estimator_vars, worker_vars, bounds_vars, now, files, session_blocks, blocks_last_updated, full_data_loaded,
                    hist_pc, old_blocks, reader_pc, observed, block, entry, ticks >>

NextLoad == Load \/ LoadCopies

SpecLoad == InitLoad /\ [][NextLoad]_vars

\* an entry list without the place each entry was read from
without_src(es) ==
    [ i \in 1..Len(es) |->
        [ timestamp |-> es[i].timestamp, usage |-> es[i].usage, message_id |-> es[i].message_id,
          request_id |-> es[i].request_id, type |-> es[i].type, content |-> es[i].content ] ]

\* the entry lists one load of the files can return
single_loads(fs, hours_back, t) ==
    { without_src(load_usage_entries(fs, hours_back, t, d)) : d \in deliveries(fs) }

\* C6 as stated: loading the content twice returns what loading it once returns.
C6_CopiesCollapse ==
    phase = "loaded_copies" => without_src(entries) \in single_loads(files, prev, now)

\* C6 as amended: loading the content twice returns what loading it once
\* returns when every entry returned carries both a message id and a request
\* id; an entry lacking either is returned once per copy.
C6_KeyedCopiesCollapse ==
    (/\ phase = "loaded_copies"
     /\ \A i \in 1..Len(entries) : entries[i].message_id # NoId /\ entries[i].request_id # NoId)
        => without_src(entries) \in single_loads(files, prev, now)

\* both copies were read and the one entry with identifiers came out once
C6_Witness ==
    /\ phase = "loaded_copies"
    /\ Len(entries) = 1
    /\ entries[1].message_id # NoId
    /\ \A f \in 1..2 : files[f].readable /\ Len(files[f].lines) > 0
    /\ \A f \in 1..2 : \A l \in 1..Len(files[f].lines) : files[f].lines[l].kind = "json"

\* the lines of file f that a load reads: all of them unless the file cannot
\* be opened; the lines up to the first undecodable one when there is one
may_be_read(fs, f, l) ==
    /\ fs[f].readable
    /\ \A k \in 1..l : fs[f].lines[k].kind # "badenc"

\* C7: a line dropped as too old leaves no trace in the dedup bookkeeping:
\* every line that is read, is inside the horizon and passes the other
\* checks is returned, itself or a line inside the horizon with its identifiers.
C7_OldLineLeavesNoTrace ==
    (phase = "loaded" /\ prev # NoHours) =>
        \A f \in 1..Len(files) : \A l \in 1..Len(files[f].lines) :
            LET line == files[f].lines[l]
            IN (/\ may_be_read(files, f, l)
                /\ \A k \in 1..Len(files[f].lines) : files[f].lines[k].kind # "badenc"
                /\ line.kind = "json"
                /\ passes_filters(line, cutoff_for(prev, now))
                /\ \A g \in 1..Len(files) : \A k \in 1..Len(files[g].lines) :
                      (files[g].lines[k].kind = "json" /\ has_dedup_key(files[g].lines[k])
                       /\ unique_hash(files[g].lines[k]) = unique_hash(line))
                        => files[g].lines[k].timestamp # NoTime)
                => \E i \in 1..Len(entries) :
                      \/ entries[i].src = << f, l >>
                      \/ /\ has_dedup_key(line)
                         /\ << entries[i].message_id, entries[i].request_id >> = unique_hash(line)

\* C8: a malformed line is skipped and the valid lines after it are still
\* returned, and a file that cannot be opened does not keep the lines of the
\* other files from being returned: every valid line of a file that can be
\* opened is returned, itself or an earlier line with its identifiers.
C8_LaterLinesSurvive ==
    (phase = "loaded" /\ prev = NoHours) =>
        \A f \in 1..Len(files) : \A l \in 1..Len(files[f].lines) :
            LET line == files[f].lines[l]
            IN (/\ files[f].readable
                /\ line.kind = "json"
                /\ passes_filters(line, NoTime)
                /\ \A g \in 1..Len(files) : \A k \in 1..Len(files[g].lines) :
                      (files[g].lines[k].kind = "json" /\ has_dedup_key(files[g].lines[k])
                       /\ unique_hash(files[g].lines[k]) = unique_hash(line))
                        => files[g].lines[k].timestamp # NoTime)
                => \E i \in 1..Len(entries) :
                      \/ entries[i].src = << f, l >>
                      \/ /\ has_dedup_key(line)
                         /\ << entries[i].message_id, entries[i].request_id >> = unique_hash(line)

(***************************************************************************)
(* SpecConc: get_historical_session_maximums on one thread, get_usage_data *)
(* on another thread of the same reader.  No lock guards _session_blocks,  *)
(* so the two calls interleave at their statements.                        *)
(***************************************************************************)
MaxConcTicks == 1        \* clock advances in a run of the two threads

InitConc ==
    /\ now = StartNow
    /\ \E lines \in InitialLogs : files = << [ readable |-> TRUE, lines |-> lines ] >>
    /\ entries = << >>
    /\ session_blocks = << >>
    /\ blocks_last_updated = NoTime
    /\ full_data_loaded = FALSE
    /\ Idle
    /\ WorkerIdle
    /\ EstimatorIdle
    /\ BoundsIdle
    /\ block = NoBlock
    /\ entry = NoEntry
    /\ prev = {}
    /\ phase = "run"
    /\ ticks = 0

\* the wall clock advances while the two calls run
Tick ==
    /\ ticks < MaxConcTicks
    /\ \E d \in Deltas : now' = now + d
    /\ ticks' = ticks + 1
    /\ UNCHANGED << estimator_vars, worker_vars, bounds_vars, files, entries, session_blocks, blocks_last_updated, full_data_loaded,
                    hist_pc, old_blocks, reader_pc, observed, block, entry, prev, phase >>

\* line 985: old_blocks = self._session_blocks
HistSave ==
    /\ hist_pc = "idle"
    /\ old_blocks' = session_blocks
    /\ hist_pc' = "saved"
    /\ UNCHANGED << estimator_vars, worker_vars, bounds_vars, now, files, entries, session_blocks, blocks_last_updated, full_data_loaded,
                    reader_pc, observed, block, entry, prev, phase, ticks >>

\* line 986: self._update_session_blocks(force_refresh=True, hours_back=days_back * 24)
HistReload ==
    /\ hist_pc = "saved"
    /\ commit(update_session_blocks(manager, TRUE, HIST_DAYS_BACK * 24, files, now))
    /\ hist_pc' = "reloaded"
    /\ UNCHANGED << estimator_vars, worker_vars, bounds_vars, now, files, entries, old_blocks, reader_pc, observed,
                    block, entry, prev, phase, ticks >>

\* line 986 raises before line 425 assigns; the exception leaves the call
HistRaise ==
    /\ hist_pc = "saved"
    /\ hist_pc' = "idle"
    /\ old_blocks' = << >>
    /\ UNCHANGED << estimator_vars, worker_vars, bounds_vars, now, files, entries, session_blocks, blocks_last_updated, full_data_loaded,
                    reader_pc, observed, block, entry, prev, phase, ticks >>

\* lines 988-1010: the scan, then self._session_blocks = old_blocks
HistRestore ==
    /\ hist_pc = "reloaded"
    /\ session_blocks' = restored_blocks(old_blocks, session_blocks)
    /\ hist_pc' = "idle"
    /\ old_blocks' = << >>
    /\ UNCHANGED << estimator_vars, worker_vars, bounds_vars, now, files, entries, blocks_last_updated, full_data_loaded,
                    reader_pc, observed, block, entry, prev, phase, ticks >>

\* the list old_blocks names after another thread's incremental refresh: line
\* 444 binds _session_blocks to a new list of the same block objects, and the
\* merge changes those objects in place
shared_objects(saved, current) ==
    [ i \in 1..Len(saved) |->
        IF \E j \in 1..Len(current) : current[j].start_time = saved[i].start_time
        THEN current[CHOOSE j \in 1..Len(current) : current[j].start_time = saved[i].start_time]
        ELSE saved[i] ]

\* get_usage_data(), line 723: self._update_session_blocks()
ReaderUpdate ==
    /\ reader_pc = "idle"
    /\ LET m == update_session_blocks(manager, FALSE, NoHours, files, now)
       IN /\ commit(m)
          /\ old_blocks' = IF hist_pc = "saved" /\ branch_of(manager, FALSE, NoHours, now) = "incremental"
                           THEN shared_objects(old_blocks, m.session_blocks)
                           ELSE old_blocks
    /\ reader_pc' = "updated"
    /\ UNCHANGED << estimator_vars, worker_vars, bounds_vars, now, files, entries, hist_pc, observed, block, entry, prev, phase, ticks >>

\* the block sets a read may show while the other call is between lines 986
\* and 1010: the set that call saved, or a refresh of the saved set
committed_views(saved, fs, t) ==
    { saved,
      incremental_blocks(saved, fs, t),
      create_session_blocks(load_usage_entries(fs, quick_start_hours, t, fully_delivered(fs)), t) }

\* get_usage_data(), line 726: blocks = self._session_blocks
ReaderRead ==
    /\ reader_pc = "updated"
    /\ observed' = session_blocks
    /\ reader_pc' = "read"
    /\ phase' = IF hist_pc = "reloaded" THEN "read_in_swap" ELSE "read"
    /\ prev' = IF hist_pc = "reloaded" THEN committed_views(old_blocks, files, now) ELSE {}
    /\ UNCHANGED << estimator_vars, worker_vars, bounds_vars, now, files, entries, session_blocks, blocks_last_updated, full_data_loaded,
                    hist_pc, old_blocks, block, entry, ticks >>

\* get_usage_data(), lines 740-781: the totals are returned
ReaderReturn ==
    /\ reader_pc = "read"
    /\ reader_pc' = "idle"
    /\ observed' = << >>
    /\ phase' = "run"
    /\ prev' = {}
    /\ UNCHANGED << estimator_vars, worker_vars, bounds_vars, now, files, entries, session_blocks, blocks_last_updated, full_data_loaded,
                    hist_pc, old_blocks, block, entry, ticks >>

NextConc ==
    \/ Tick
    \/ AppendLine
    \/ HistSave
    \/ HistReload
    \/ HistRaise
    \/ HistRestore
    \/ ReaderUpdate
    \/ ReaderRead
    \/ ReaderReturn

SpecConc == InitConc /\ [][NextConc]_vars

\* C10: a read made while get_historical_session_maximums is between its
\* reload and its restore shows the block set that call saved or a refresh of
\* it, never the expanded set.
C10_ReaderNeverSeesExpanded ==
    phase = "read_in_swap" => observed \in prev

(***************************************************************************)
(* SpecFlight: _update_session_blocks entered by the worker thread (from   *)
(* fetch_claude_data) and by the executor thread (from get_usage_data) of  *)
(* the same reader.  A call is between its cache test and its last         *)
(* statement while it is "refreshing".                                     *)
(***************************************************************************)
MaxFlightTicks == 1      \* clock advances in a run of the two threads

InitFlight ==
    /\ now = StartNow
    /\ \E lines \in InitialLogs : files = << [ readable |-> TRUE, lines |-> lines ] >>
    /\ entries = << >>
    /\ session_blocks = << >>
    /\ blocks_last_updated = NoTime
    /\ full_data_loaded = FALSE
    /\ Idle
    /\ running = TRUE
    /\ worker_pc = "fetching"
    /\ slept = 0
    /\ emitted = NoData
    /\ last_historical_update = NoTime
    /\ BoundsIdle
    /\ EstimatorIdle
    /\ block = NoBlock
    /\ entry = NoEntry
    /\ prev = NoResult
    /\ phase = "run"
    /\ ticks = 0

\* the wall clock advances between two calls
FlightTick ==
    /\ ticks < MaxFlightTicks
    /\ worker_pc # "refreshing" /\ reader_pc # "refreshing"
    /\ \E d \in Deltas : now' = now + d
    /\ ticks' = ticks + 1
    /\ UNCHANGED << estimator_vars, worker_vars, bounds_vars, files, entries, session_blocks, blocks_last_updated,
                    full_data_loaded, hist_pc, old_blocks, reader_pc, observed, block, entry,
                    prev, phase >>

\* the worker thread enters _update_session_blocks(), lines 412-417
WorkerBegin ==
    /\ worker_pc = "fetching"
    /\ worker_pc' = IF cache_valid(manager, FALSE, NoHours, now) THEN "fetching" ELSE "refreshing"
    /\ UNCHANGED << estimator_vars, running, slept, emitted, last_historical_update, bounds_vars, now, files, entries, session_blocks,
                    blocks_last_updated, full_data_loaded, hist_pc, old_blocks, reader_pc,
                    observed, block, entry, prev, phase, ticks >>

\* the worker thread runs lines 420-473
WorkerFinish ==
    /\ worker_pc = "refreshing"
    /\ commit(update_session_blocks(manager, TRUE, NoHours, files, now))
    /\ worker_pc' = "fetching"
    /\ UNCHANGED << estimator_vars, running, slept, emitted, last_historical_update, bounds_vars, now, files, entries, hist_pc,
                    old_blocks, reader_pc, observed, block, entry, prev, phase, ticks >>

\* the executor thread enters _update_session_blocks() from get_usage_data, line 723
ExecutorBegin ==
    /\ reader_pc = "idle"
    /\ reader_pc' = IF cache_valid(manager, FALSE, NoHours, now) THEN "updated" ELSE "refreshing"
    /\ UNCHANGED << estimator_vars, worker_vars, bounds_vars, now, files, entries, session_blocks,
                    blocks_last_updated, full_data_loaded, hist_pc, old_blocks,
                    observed, block, entry, prev, phase, ticks >>

\* the executor thread runs lines 420-473
ExecutorFinish ==
    /\ reader_pc = "refreshing"
    /\ commit(update_session_blocks(manager, TRUE, NoHours, files, now))
    /\ reader_pc' = "updated"
    /\ UNCHANGED << estimator_vars, worker_vars, bounds_vars, now, files, entries, hist_pc, old_blocks,
                    observed, block, entry, prev, phase, ticks >>

NextFlight ==
    \/ FlightTick
    \/ AppendLine
    \/ WorkerBegin
    \/ WorkerFinish
    \/ ExecutorBegin
    \/ ExecutorFinish
    \/ ReaderRead
    \/ ReaderReturn

SpecFlight == InitFlight /\ [][NextFlight]_vars

\* C11: no two executions of _update_session_blocks that load the logs and
\* change the block list overlap: the worker thread and the executor thread
\* are never both between the cache test and the end of the call.
C11_SingleFlight ==
    ~(worker_pc = "refreshing" /\ reader_pc = "refreshing")

(***************************************************************************)
(* SpecWorker: the worker thread of main.py (DataUpdateWorker.run) with    *)
(* its own reader, the UI thread that receives the emitted dicts and calls *)
(* stop(), and the log growing meanwhile.                                  *)
(***************************************************************************)
MaxCycles == 2           \* fetch cycles in a run
update_frequency == 2    \* the configured update_frequency_seconds: sleep(1) calls per cycle

\* what one sleep(1) takes: a second, or longer than the cache validity when
\* the thread is not scheduled in time
SleepSeconds == { 1, cache_duration_seconds + 1 }

\* _get_current_block, lines 556-564: the index of the block that contains now, 0 for None
current_block_index(blocks, t) ==
    first_index(blocks, LAMBDA b : b.start_time <= t /\ t < b.end_time)

\* get_current_session_info and fetch_claude_data lines 138-154: the dict that
\* is emitted.  model_breakdown is the per_model_stats dict of the block
\* object itself; breakdown_of names that object by its start_time (NoTime
\* when the dict is a new empty one).
fetch_result(blocks, t) ==
    LET i == current_block_index(blocks, t)
        session_start == IF i = 0 THEN round_to_hour(t) ELSE blocks[i].start_time
    IN [ session_start |-> session_start,
         tokens |-> IF i = 0 THEN 0 ELSE blocks[i].total_tokens,
         is_active |-> session_start <= t /\ t <= session_start + 5 * Hour,
         model_breakdown |-> IF i = 0 THEN << >> ELSE blocks[i].per_model_stats,
         breakdown_of |-> IF i = 0 THEN NoTime ELSE blocks[i].start_time,
         last_update |-> t ]

\* main.py lines 129-130: the historical maximums are due
maximums_due(last, t) == last = NoTime \/ t - last > Hour

\* line 92-94: the sleep loop is left
leaves_sleep_loop_late(r, i) == i >= update_frequency

leaves_sleep_loop(r, i) == i >= update_frequency \/ ~r

\* the log when the thread starts: one assistant message of half an hour ago
WorkerLogs == { lines \in InitialLogs : Len(lines) = 1 }

InitWorker ==
    /\ now = StartNow
    /\ \E lines \in WorkerLogs : files = << [ readable |-> TRUE, lines |-> lines ] >>
    /\ entries = << >>
    /\ session_blocks = << >>
    /\ blocks_last_updated = NoTime
    /\ full_data_loaded = FALSE
    /\ Idle
    /\ WorkerIdle
    /\ EstimatorIdle
    /\ BoundsIdle
    /\ block = NoBlock
    /\ entry = NoEntry
    /\ prev = NoData
    /\ phase = "run"
    /\ ticks = 0

\* QThread.start(): run() begins, line 80
Start ==
    /\ worker_pc = "created"
    /\ worker_pc' = "loop"
    /\ UNCHANGED << estimator_vars, running, slept, emitted, last_historical_update, bounds_vars, now, files,
                    entries, session_blocks, blocks_last_updated, full_data_loaded, hist_pc,
                    old_blocks, reader_pc, observed, block, entry, prev, phase, ticks >>

\* line 82: while self.running
LoopTest ==
    /\ worker_pc = "loop"
    /\ running => ticks < MaxCycles
    /\ worker_pc' = IF running THEN "fetching" ELSE "done"
    /\ ticks' = IF running THEN ticks + 1 ELSE ticks
    /\ UNCHANGED << estimator_vars, running, slept, emitted, last_historical_update, bounds_vars, now, files,
                    entries, session_blocks, blocks_last_updated, full_data_loaded, hist_pc,
                    old_blocks, reader_pc, observed, block, entry, prev, phase >>

\* line 84: data = self.fetch_claude_data(), lines 97-158
Fetch ==
    /\ worker_pc = "fetching"
    /\ LET m == update_session_blocks(manager, FALSE, NoHours, files, now)
           due == maximums_due(last_historical_update, now)
       IN /\ session_blocks' = m.session_blocks
          /\ full_data_loaded' = m.full_data_loaded
          /\ blocks_last_updated' = IF due THEN now ELSE m.blocks_last_updated
          /\ last_historical_update' = IF due THEN now ELSE last_historical_update
          /\ prev' = fetch_result(m.session_blocks, now)
    /\ worker_pc' = "fetched"
    /\ UNCHANGED << estimator_vars, running, slept, emitted, bounds_vars, now, files, entries, hist_pc,
                    old_blocks, reader_pc, observed, block, entry, phase, ticks >>

\* lines 87-89: fetch_claude_data raises, the error is emitted instead
FetchRaises ==
    /\ worker_pc = "fetching"
    /\ worker_pc' = "sleep_test"
    /\ slept' = 0
    /\ UNCHANGED << estimator_vars, running, emitted, last_historical_update, bounds_vars, now, files,
                    entries, session_blocks, blocks_last_updated, full_data_loaded, hist_pc,
                    old_blocks, reader_pc, observed, block, entry, prev, phase, ticks >>

\* lines 85-86: self.data_ready.emit(data)
Emit ==
    /\ worker_pc = "fetched"
    /\ emitted' = prev
    /\ worker_pc' = "sleep_test"
    /\ slept' = 0
    /\ UNCHANGED << estimator_vars, running, last_historical_update, bounds_vars, now, files,
                    entries, session_blocks, blocks_last_updated, full_data_loaded, hist_pc,
                    old_blocks, reader_pc, observed, block, entry, prev, phase, ticks >>

\* lines 92-94: the head of the sleep loop and the test of self.running
SleepTest ==
    /\ worker_pc = "sleep_test"
    /\ worker_pc' = IF leaves_sleep_loop(running, slept) THEN "loop" ELSE "sleeping"
    /\ UNCHANGED << estimator_vars, running, slept, emitted, last_historical_update, bounds_vars, now, files,
                    entries, session_blocks, blocks_last_updated, full_data_loaded, hist_pc,
                    old_blocks, reader_pc, observed, block, entry, prev, phase, ticks >>

\* line 95: self.sleep(1)
Sleep ==
    /\ worker_pc = "sleeping"
    /\ \E d \in SleepSeconds : now' = now + d
    /\ slept' = slept + 1
    /\ worker_pc' = "sleep_test"
    /\ phase' = IF running THEN phase
                ELSE IF phase = "stopped" THEN "slept_once"
                ELSE IF phase = "stopped_in_fetch" THEN "slept_after_fetch"
                ELSE "slept_more"
    /\ UNCHANGED << estimator_vars, running, emitted, last_historical_update, bounds_vars, files,
                    entries, session_blocks, blocks_last_updated, full_data_loaded, hist_pc,
                    old_blocks, reader_pc, observed, block, entry, prev, ticks >>

\* DataUpdateWorker.stop(), line 162, called by the UI thread
Stop ==
    /\ running
    /\ running' = FALSE
    /\ phase' = IF worker_pc \in {"fetching", "fetched"} THEN "stopped_in_fetch" ELSE "stopped"
    /\ UNCHANGED << estimator_vars, worker_pc, slept, emitted, last_historical_update, bounds_vars, now, files,
                    entries, session_blocks, blocks_last_updated, full_data_loaded, hist_pc,
                    old_blocks, reader_pc, observed, block, entry, prev, ticks >>

\* the steps of the worker thread outside fetch_claude_data
WorkerStep == Start \/ LoopTest \/ Emit \/ SleepTest \/ Sleep

\* a call of fetch_claude_data ends: it returns or it raises
FetchEnds == []<>(worker_pc # "fetching")

NextWorker ==
    \/ Start
    \/ LoopTest
    \/ Fetch
    \/ FetchRaises
    \/ Emit
    \/ SleepTest
    \/ Sleep
    \/ Stop
    \/ AppendLine

\* the worker thread is scheduled again and again, sleep(1) returns and
\* fetch_claude_data ends
SpecWorker == InitWorker /\ [][NextWorker]_vars /\ WF_vars(WorkerStep) /\ FetchEnds

\* what the UI thread finds in the per-model breakdown of the dict it holds
live_breakdown(d, blocks) ==
    LET i == first_index(blocks, LAMBDA b : b.start_time = d.breakdown_of)
    IN IF d.breakdown_of = NoTime \/ i = 0 THEN d.model_breakdown
       ELSE blocks[i].per_model_stats

\* C12: the dict handed to the UI thread is a snapshot: whatever the worker
\* thread does afterwards, the per-model breakdown reachable from it is what
\* it was when the dict was emitted.
C12_EmittedIsSnapshot ==
    emitted # NoData => live_breakdown(emitted, session_blocks) = emitted.model_breakdown

\* C13: once stop() has set running to false the loop starts no fetch cycle,
\* completes at most the one sleep(1) it was in, does not sleep at all when
\* the stop came during a fetch, and the thread terminates.
C13_StopHonoured ==
    /\ [][~running => ~(worker_pc = "loop" /\ worker_pc' = "fetching")]_vars
    /\ [](phase \notin {"slept_more", "slept_after_fetch"})
    /\ (~running ~> worker_pc = "done")

\* stop() came while the thread was inside sleep(1); that sleep returned and
\* the thread has ended
C13_Witness ==
    /\ ~running
    /\ worker_pc = "done"
    /\ phase = "slept_once"
    /\ emitted # NoData

(***************************************************************************)
(* SpecCache: calls of _update_session_blocks seconds apart, with and      *)
(* without force_refresh and hours_back, while the log grows.              *)
(***************************************************************************)
MaxCacheTicks == 3       \* clock advances in a run

\* clock steps of 10 and 20 seconds: a call comes 10, 20, 30, ... seconds
\* after the last refresh
CacheDeltas == { 10, 20 }

CacheHours == { NoHours, INCREMENTAL_HOURS }

\* the calls of _load_usage_entries a call of _update_session_blocks makes
loads_of(branch) == IF branch = "suppressed" THEN 0 ELSE 1

InitCache ==
    /\ now = StartNow
    /\ \E lines \in InitialLogs : files = << [ readable |-> TRUE, lines |-> lines ] >>
    /\ entries = << >>
    /\ session_blocks = << >>
    /\ blocks_last_updated = NoTime
    /\ full_data_loaded = FALSE
    /\ Idle
    /\ WorkerIdle
    /\ EstimatorIdle
    /\ BoundsIdle
    /\ block = NoBlock
    /\ entry = NoEntry
    /\ prev = NoResult
    /\ phase = "run"
    /\ ticks = 0

CacheTick ==
    /\ ticks < MaxCacheTicks
    /\ \E d \in CacheDeltas : now' = now + d
    /\ ticks' = ticks + 1
    /\ UNCHANGED << estimator_vars, worker_vars, bounds_vars, files, entries, session_blocks, blocks_last_updated,
                    full_data_loaded, hist_pc, old_blocks, reader_pc, observed, block, entry,
                    prev, phase >>

\* self._update_session_blocks(force_refresh, hours_back); prev records the call
UpdateSessionBlocks(force_refresh, hours_back) ==
    /\ commit(update_session_blocks(manager, force_refresh, hours_back, files, now))
    /\ prev' = [ op |-> "update", force_refresh |-> force_refresh, hours_back |-> hours_back,
                 branch |-> branch_of(manager, force_refresh, hours_back, now),
                 loads |-> loads_of(branch_of(manager, force_refresh, hours_back, now)) ]
    /\ UNCHANGED << estimator_vars, worker_vars, bounds_vars, now, files, entries, hist_pc, old_blocks,
                    reader_pc, observed, block, entry, phase, ticks >>

Update ==
    \E force_refresh \in BOOLEAN, hours_back \in CacheHours :
        UpdateSessionBlocks(force_refresh, hours_back)

NextCache == CacheTick \/ AppendLine \/ Update

SpecCache == InitCache /\ [][NextCache]_vars

\* C16: a call without force_refresh and without hours_back made less than
\* 30 seconds after the last refresh loads no log file and leaves the block
\* list, the time of the last refresh and the full-data flag as they were.
C16_CacheSuppresses ==
    [][(/\ UpdateSessionBlocks(FALSE, NoHours)
        /\ blocks_last_updated # NoTime
        /\ now - blocks_last_updated < cache_duration_seconds) =>
            /\ prev'.loads = 0
            /\ UNCHANGED << estimator_vars, session_blocks, blocks_last_updated, full_data_loaded >>]_vars

\* a call 20 seconds after the last refresh was suppressed although the log
\* holds a line the blocks do not
C16_Witness ==
    /\ prev # NoResult
    /\ prev.branch = "suppressed"
    /\ now - blocks_last_updated = 20
    /\ appended(files) = 1
    /\ \A i \in 1..Len(session_blocks) :
          \A k \in 1..Len(session_blocks[i].entries) :
             session_blocks[i].entries[k].timestamp < StartNow

(***************************************************************************)
(* SpecPrompt: _add_entry_to_block on one block, with user entries of      *)
(* every sample content.                                                   *)
(***************************************************************************)
MaxPrompts == 2          \* entries added to the block in a run

PromptShapes ==
    { [ type |-> "user", content |-> c, usage |-> EmptyUsage ] : c \in Contents }
    \cup { [ type |-> "user", content |-> "text", usage |-> UserUsage ],
           [ type |-> "assistant", content |-> "text", usage |-> AssistantUsage ] }

InitPrompt ==
    /\ now \in AddNows
    /\ files = << >>
    /\ entries = << >>
    /\ session_blocks = << >>
    /\ blocks_last_updated = NoTime
    /\ full_data_loaded = FALSE
    /\ Idle
    /\ WorkerIdle
    /\ EstimatorIdle
    /\ BoundsIdle
    /\ block = SessionBlock(AddStart, AddStart + SessionDuration)
    /\ entry = NoEntry
    /\ prev = 0
    /\ phase = "new"
    /\ ticks = 0

\* self._add_entry_to_block(block, entry)
AddPrompt ==
    /\ ticks < MaxPrompts
    /\ \E shape \in PromptShapes, timestamp \in AddTimes :
          /\ timestamp <= now
          /\ \A k \in 1..Len(block.entries) : block.entries[k].timestamp <= timestamp
          /\ entry' = [ timestamp |-> timestamp, usage |-> shape.usage, message_id |-> NoId,
                        request_id |-> NoId, type |-> shape.type, content |-> shape.content,
                        src |-> << 1, ticks + 1 >> ]
          /\ block' = add_entry_to_block(block, entry', now)
    /\ ticks' = ticks + 1
    /\ phase' = "added"
    /\ UNCHANGED << estimator_vars, worker_vars, bounds_vars, now, files, entries, session_blocks,
                    blocks_last_updated, full_data_loaded, hist_pc, old_blocks, reader_pc,
                    observed, prev >>

NextPrompt == AddPrompt \/ MarkActive

SpecPrompt == InitPrompt /\ [][NextPrompt]_vars

\* the entry is a genuine prompt: a user entry that is no tool result and whose
\* text is non-empty, not whitespace only, shorter than 500 characters and
\* starts with no noise marker
genuine_prompt(e) ==
    /\ e.type = "user"
    /\ sample(e.content).form \in { "str", "list_text" }
    /\ sample(e.content).len > 0
    /\ sample(e.content).stripped > 0
    /\ sample(e.content).len < 500
    /\ sample(e.content).prefix = ""

MaxRateTicks == 3        \* clock advances in a run
MaxRateAppends == 2      \* lines appended to the log file in a run

RateDeltas == { Minute, 2 * Minute, Hour }

\* an assistant message of 1000 tokens, one of 500, one with cache tokens
\* only, and a user prompt
RateShapes ==
    { [ type |-> "assistant", content |-> "none",
        usage |-> [ input_tokens |-> 600, output_tokens |-> 400 ] ],
      [ type |-> "assistant", content |-> "none",
        usage |-> [ input_tokens |-> 400, output_tokens |-> 100 ] ],
      [ type |-> "assistant", content |-> "none",
        usage |-> [ input_tokens |-> 0, output_tokens |-> 0, cache_read_input_tokens |-> 7 ] ],
      [ type |-> "user", content |-> "text", usage |-> EmptyUsage ] }

\* the log at start-up: empty, or one message of an hour and a half ago
RateLogs ==
    { << >>,
      << log_line([ type |-> "assistant", content |-> "none", usage |-> AssistantUsage ],
                  StartNow - 90 * Minute) >> }

ZeroRate == << 0, 1 >>

NoScan == [ input |-> 0, output |-> 0, entries_in_hour |-> 0,
            earliest_entry |-> NoTime, latest_entry |-> NoTime ]

\* lines 626-636: the loop over the entries of one block
RECURSIVE scan_entries(_, _, _, _)
scan_entries(es, k, since, acc) ==
    IF k > Len(es) THEN acc
    ELSE scan_entries(es, k + 1, since,
            IF es[k].timestamp >= since
            THEN [ input |-> acc.input + Get(es[k].usage, "input_tokens"),
                   output |-> acc.output + Get(es[k].usage, "output_tokens"),
                   entries_in_hour |-> acc.entries_in_hour + 1,
                   earliest_entry |->
                       IF acc.earliest_entry = NoTime \/ es[k].timestamp < acc.earliest_entry
                       THEN es[k].timestamp ELSE acc.earliest_entry,
                   latest_entry |->
                       IF acc.latest_entry = NoTime \/ es[k].timestamp > acc.latest_entry
                       THEN es[k].timestamp ELSE acc.latest_entry ]
            ELSE acc)

\* lines 620-636 and 645-659: the loop over the blocks
RECURSIVE scan_blocks(_, _, _, _)
scan_blocks(blocks, i, since, acc) ==
    IF i > Len(blocks) THEN acc
    ELSE scan_blocks(blocks, i + 1, since,
            IF blocks[i].end_time < since /\ ~blocks[i].is_active THEN acc
            ELSE scan_entries(blocks[i].entries, 1, since, acc))

\* line 672: a span under 5 minutes is extrapolated from
extrapolates(hourly_tokens, span) == hourly_tokens > 0 /\ span > Minute

\* lines 609-686, after the refresh of line 607
hourly_burn_rate(blocks, t) ==
    LET hour == scan_blocks(blocks, 1, t - Hour, NoScan)
        scan == IF hour.entries_in_hour = 0 THEN scan_blocks(blocks, 1, t - 2 * Hour, hour)
                ELSE hour
        hourly_tokens == scan.input + scan.output
        span == scan.latest_entry - scan.earliest_entry
    IN IF scan.entries_in_hour = 0 THEN ZeroRate
       ELSE IF span < 5 * Minute
       THEN IF extrapolates(hourly_tokens, span) THEN << hourly_tokens * 60, span >>
            ELSE ZeroRate
       ELSE << hourly_tokens * 60, span >>

InitRate ==
    /\ now = StartNow
    /\ \E lines \in RateLogs : files = << [ readable |-> TRUE, lines |-> lines ] >>
    /\ entries = << >>
    /\ session_blocks = << >>
    /\ blocks_last_updated = NoTime
    /\ full_data_loaded = FALSE
    /\ Idle
    /\ WorkerIdle
    /\ EstimatorIdle
    /\ BoundsIdle
    /\ block = NoBlock
    /\ entry = NoEntry
    /\ prev = NoResult
    /\ phase = "run"
    /\ ticks = 0

RateTick ==
    /\ ticks < MaxRateTicks
    /\ \E d \in RateDeltas : now' = now + d
    /\ ticks' = ticks + 1
    /\ UNCHANGED << estimator_vars, worker_vars, bounds_vars, files, entries, session_blocks, blocks_last_updated,
                    full_data_loaded, hist_pc, old_blocks, reader_pc, observed, block, entry,
                    prev, phase >>

\* a line stamped with the current time is appended to the log
AppendRateLine ==
    /\ appended(files) < MaxRateAppends
    /\ \E shape \in RateShapes :
          files' = [ files EXCEPT ![1].lines = Append(@, log_line(shape, now)) ]
    /\ UNCHANGED << estimator_vars, worker_vars, bounds_vars, now, entries, session_blocks, blocks_last_updated,
                    full_data_loaded, hist_pc, old_blocks, reader_pc, observed, block, entry,
                    prev, phase, ticks >>

\* calculate_hourly_burn_rate()
CalculateHourlyBurnRate ==
    /\ LET m == update_session_blocks(manager, FALSE, NoHours, files, now)
       IN /\ commit(m)
          /\ prev' = [ op |-> "burn_rate", rate |-> hourly_burn_rate(m.session_blocks, now) ]
    /\ UNCHANGED << estimator_vars, worker_vars, bounds_vars, now, files, entries, hist_pc, old_blocks,
                    reader_pc, observed, block, entry, phase, ticks >>

NextRate == RateTick \/ AppendRateLine \/ CalculateHourlyBurnRate

SpecRate == InitRate /\ [][NextRate]_vars

\* the places << block, entry >> of the entries stamped since the given time
places_since(blocks, since) ==
    { p \in UNION { { << i, k >> : k \in 1..Len(blocks[i].entries) } : i \in 1..Len(blocks) } :
        blocks[p[1]].entries[p[2]].timestamp >= since }

RECURSIVE tokens_at(_, _)
tokens_at(blocks, places) ==
    IF places = {} THEN 0
    ELSE LET p == CHOOSE q \in places : TRUE
             usage == blocks[p[1]].entries[p[2]].usage
         IN Get(usage, "input_tokens") + Get(usage, "output_tokens")
            + tokens_at(blocks, places \ {p})

\* the rate the fallback policy gives: the entries of the last hour, or of the
\* last two hours when there are none; their tokens over their span, a span
\* under 5 minutes taken as at least 1 minute; 0 without entries or tokens
policy_rate(blocks, t) ==
    LET places == IF places_since(blocks, t - Hour) # {} THEN places_since(blocks, t - Hour)
                  ELSE places_since(blocks, t - 2 * Hour)
        stamps == { blocks[p[1]].entries[p[2]].timestamp : p \in places }
        tokens == tokens_at(blocks, places)
        span == (CHOOSE x \in stamps : \A y \in stamps : y <= x)
                - (CHOOSE x \in stamps : \A y \in stamps : x <= y)
    IN IF places = {} \/ tokens = 0 THEN ZeroRate
       ELSE << tokens * 60, Max(span, Minute) >>

same_rate(r, q) == r[1] * q[2] = q[1] * r[2]

\* C19: calculate_hourly_burn_rate returns the rate of the fallback policy,
\* a span under 5 minutes with tokens being extrapolated from as at least one
\* minute; it returns 0 only without entries or tokens, and never a negative
\* value.
C19_BurnRatePolicy ==
    [][CalculateHourlyBurnRate =>
        /\ same_rate(prev'.rate, policy_rate(session_blocks', now))
        /\ prev'.rate[1] >= 0
        /\ prev'.rate[2] > 0]_vars

(***************************************************************************)
(* SpecPattern: AdaptiveBoundsCalculator.add_prompt and                    *)
(* get_current_pattern.  observed is the sequence of the message counts    *)
(* of all add_prompt calls made so far.                                    *)
(***************************************************************************)
MaxObservations == 3     \* add_prompt calls in a run
window_size == 20
SIMPLE_THRESHOLD == 3
COMPLEX_THRESHOLD == 9
PATTERN_WINDOW == 10

MessageCounts == { 2, 3, 5, 8, 9, 10 }

Repeat(x, n) == [ i \in 1..n |-> x ]

\* the calls made before the run: none, two, seven of 2 messages, five of 2
\* and four of 10, and nineteen of them
Histories ==
    { << >>,
      << 3, 9 >>,
      Repeat(2, 7),
      Repeat(2, 5) \o Repeat(10, 4),
      Repeat(10, 9) \o Repeat(2, 5) \o Repeat(5, 5) }

\* deque(maxlen=window_size).append
deque_append(d, x) ==
    IF Len(d) < window_size THEN Append(d, x) ELSE Append(Tail(d), x)

\* lines 51-56
pattern_of(message_count) ==
    IF message_count <= SIMPLE_THRESHOLD THEN "simple"
    ELSE IF message_count >= COMPLEX_THRESHOLD THEN "complex"
    ELSE "moderate"

\* add_prompt: << recent_multipliers, pattern_history >> after the call
add_prompt(calc, message_count) ==
    << deque_append(calc[1], message_count), deque_append(calc[2], pattern_of(message_count)) >>

RECURSIVE add_prompts(_, _, _)
add_prompts(calc, counts, i) ==
    IF i > Len(counts) THEN calc
    ELSE add_prompts(add_prompt(calc, counts[i]), counts, i + 1)

\* list(d)[-10:]
last_items(d, n) == IF Len(d) <= n THEN d ELSE SubSeq(d, Len(d) - n + 1, Len(d))

\* a dominance that needs more than 60%
dominant_strict(count, total) == 10 * count > 6 * total

\* line 77: count / total >= 0.6
dominant(count, total) == 10 * count >= 6 * total

\* lines 61-80
get_current_pattern(history) ==
    LET recent == last_items(history, PATTERN_WINDOW)
        pattern_count(p) == Cardinality({ i \in 1..Len(recent) : recent[i] = p })
        total == pattern_count("simple") + pattern_count("moderate") + pattern_count("complex")
    IN IF Len(history) < 3 THEN "mixed"
       ELSE IF total = 0 THEN "mixed"
       ELSE IF dominant(pattern_count("simple"), total) THEN "simple"
       ELSE IF dominant(pattern_count("moderate"), total) THEN "moderate"
       ELSE IF dominant(pattern_count("complex"), total) THEN "complex"
       ELSE "mixed"

InitPattern ==
    /\ now = StartNow
    /\ files = << >>
    /\ entries = << >>
    /\ session_blocks = << >>
    /\ blocks_last_updated = NoTime
    /\ full_data_loaded = FALSE
    /\ hist_pc = "idle" /\ old_blocks = << >> /\ reader_pc = "idle"
    /\ WorkerIdle
    /\ EstimatorIdle
    /\ \E h \in Histories :
          /\ observed = h
          /\ recent_multipliers = add_prompts(<< << >>, << >> >>, h, 1)[1]
          /\ pattern_history = add_prompts(<< << >>, << >> >>, h, 1)[2]
    /\ block = NoBlock
    /\ entry = NoEntry
    /\ prev = NoResult
    /\ phase = "run"
    /\ ticks = 0

\* calc.add_prompt(message_count)
AddPromptCount ==
    /\ ticks < MaxObservations
    /\ \E message_count \in MessageCounts :
          /\ recent_multipliers' = add_prompt(<< recent_multipliers, pattern_history >>, message_count)[1]
          /\ pattern_history' = add_prompt(<< recent_multipliers, pattern_history >>, message_count)[2]
          /\ observed' = Append(observed, message_count)
    /\ ticks' = ticks + 1
    /\ UNCHANGED << estimator_vars, worker_vars, now, files, entries, session_blocks, blocks_last_updated,
                    full_data_loaded, hist_pc, old_blocks, reader_pc, block, entry, prev, phase >>

\* calc.get_current_pattern()
GetCurrentPattern ==
    /\ prev' = [ op |-> "pattern", pattern |-> get_current_pattern(pattern_history) ]
    /\ UNCHANGED << estimator_vars, worker_vars, bounds_vars, now, files, entries, session_blocks,
                    blocks_last_updated, full_data_loaded, hist_pc, old_blocks, reader_pc,
                    observed, block, entry, phase, ticks >>

NextPattern == AddPromptCount \/ GetCurrentPattern

SpecPattern == InitPattern /\ [][NextPattern]_vars

\* the labels at least 60% of the last 10 observations carry
dominant_labels(counts) ==
    LET recent == last_items(counts, 10)
        with(label) == { i \in 1..Len(recent) :
                            \/ label = "simple" /\ recent[i] <= 3
                            \/ label = "complex" /\ recent[i] >= 9
                            \/ label = "moderate" /\ recent[i] > 3 /\ recent[i] < 9 }
    IN { label \in { "simple", "moderate", "complex" } :
            5 * Cardinality(with(label)) >= 3 * Len(recent) }

\* C20: get_current_pattern returns mixed after fewer than 3 add_prompt
\* calls; after more it returns the label carried by at least 60% of the
\* last 10 observations, and mixed when no label is.
C20_DominantPattern ==
    [][GetCurrentPattern =>
        IF Len(observed) < 3 THEN prev'.pattern = "mixed"
        ELSE IF dominant_labels(observed) = {} THEN prev'.pattern = "mixed"
        ELSE dominant_labels(observed) = { prev'.pattern }]_vars

\* seven observations of 2 and three of 5, and the pattern returned is simple
C20_Witness ==
    /\ observed = Repeat(2, 7) \o Repeat(5, 3)
    /\ prev = [ op |-> "pattern", pattern |-> "simple" ]

(***************************************************************************)
(* SpecBounds: AdaptiveBoundsCalculator.calculate_bounds after add_prompt  *)
(* calls.  Multipliers are kept as integers, 40 times their value: the     *)
(* percentiles of integer samples of up to 10 values at 2.5, 10, 25, 50,   *)
(* 75, 90 and 97.5 percent are multiples of 1/40.  The float products      *)
(* multiplier * 0.9 and multiplier * 1.1 are taken as exact; Python's      *)
(* floats give the same integers for the ceilings below.  The standard     *)
(* deviation of lines 134-136 is not computed: NoSpread stands for it.     *)
(***************************************************************************)
MaxBoundsAdds == 2       \* add_prompt calls in a run
MIN_DATA_POINTS == 5
NoSpread == -1

ObservationCounts == { 0, 1, 3, 5, 9, 100 }

\* the calls made before the run
BoundsHistories ==
    { << >>,
      << 2, 3, 2 >>,
      Repeat(5, 4),
      << 0, 1, 0, 1 >>,
      << 3, 5, 9, 12, 100 >>,
      Repeat(2, 9) }

Ceilings == { 0, 900 }
PromptsUsed == { 0, 50 }
Confidences == { "0.5", "0.8", "0.95" }

\* lines 39-44
pattern_defaults(pattern) ==
    CASE pattern = "simple" -> 3
      [] pattern = "moderate" -> 7
      [] pattern = "complex" -> 18
      [] OTHER -> 10

RECURSIVE sorted_counts(_)
sorted_counts(counts) ==
    IF Len(counts) = 0 THEN << >>
    ELSE LET rest == sorted_counts(Tail(counts))
             x == Head(counts)
             below == SelectSeq(rest, LAMBDA y : y <= x)
             above == SelectSeq(rest, LAMBDA y : y > x)
         IN below \o << x >> \o above

\* np.percentile(a, q) with linear interpolation, a sorted and not empty,
\* q = 2.5 * units; the result is 40 times the percentile
percentile40(sorted, units) ==
    LET pos == (Len(sorted) - 1) * units
        lo == pos \div 40
        r == pos % 40
    IN IF r = 0 THEN 40 * sorted[lo + 1]
       ELSE 40 * sorted[lo + 1] + r * (sorted[lo + 2] - sorted[lo + 1])

\* lines 110-118: the sample without its outliers, sorted
filtered_counts(recent) ==
    LET sorted == sorted_counts(recent)
        q1 == percentile40(sorted, 10)
        q3 == percentile40(sorted, 30)
        iqr == q3 - q1
        filtered == SelectSeq(sorted, LAMBDA x : /\ 2 * q1 - 3 * iqr <= 80 * x
                                                 /\ 80 * x <= 2 * q3 + 3 * iqr)
    IN IF Len(filtered) = 0 THEN sorted ELSE filtered

\* a test that takes three observations as enough data
has_enough_data_early(calc) == Len(calc[1]) >= 3

\* line 94, negated: the sample is used
has_enough_data(calc) == Len(calc[1]) >= MIN_DATA_POINTS

\* lines 94-130: the point estimate, 40 times its value
multiplier40(calc) ==
    IF ~has_enough_data(calc) THEN 40 * pattern_defaults(get_current_pattern(calc[2]))
    ELSE percentile40(filtered_counts(last_items(calc[1], 10)), 20)

\* lines 99-148: the spread computed before the final step
first_spread(calc, confidence) ==
    LET pattern == get_current_pattern(calc[2])
        filtered == filtered_counts(last_items(calc[1], 10))
    IN IF ~has_enough_data(calc)
       THEN IF pattern = "mixed"
            THEN [ kind |-> "default", lower40 |-> 4 * 40, upper40 |-> 10 * 40 ]
            ELSE [ kind |-> "default", lower40 |-> 28 * pattern_defaults(pattern),
                   upper40 |-> 56 * pattern_defaults(pattern) ]
       ELSE IF pattern \in { "simple", "moderate" } /\ Len(filtered) >= 5
       THEN [ kind |-> "std", lower40 |-> NoSpread, upper40 |-> NoSpread ]
       ELSE IF confidence = "0.8"
       THEN [ kind |-> "percentile", lower40 |-> percentile40(filtered, 4),
              upper40 |-> percentile40(filtered, 36) ]
       ELSE IF confidence = "0.5"
       THEN [ kind |-> "percentile", lower40 |-> percentile40(filtered, 10),
              upper40 |-> percentile40(filtered, 30) ]
       ELSE [ kind |-> "percentile", lower40 |-> percentile40(filtered, 1),
              upper40 |-> percentile40(filtered, 39) ]

\* a final step that keeps a spread of percentiles
final_spread_kept(spread, m40) ==
    IF spread.kind = "percentile" THEN spread
    ELSE [ kind |-> "tight", lower40 |-> Max(40, (9 * m40) \div 10), upper40 |-> (11 * m40) \div 10 ]

\* lines 152-153
final_spread(spread, m40) ==
    [ kind |-> "tight", lower40 |-> Max(40, (9 * m40) \div 10), upper40 |-> (11 * m40) \div 10 ]

\* lines 159-160
ordered_spread(spread) ==
    IF spread.upper40 < spread.lower40
    THEN [ spread EXCEPT !.lower40 = spread.upper40, !.upper40 = spread.lower40 ]
    ELSE spread

\* lines 92-179.  int(message_limit / 0.0) at line 164 raises: the quotient of a Python
\* int and a numpy float 0.0 is inf or nan, which int() rejects.
calculate_bounds(calc, message_limit, prompts_used, confidence) ==
    LET m40 == multiplier40(calc)
        spread == ordered_spread(final_spread(first_spread(calc, confidence), m40))
    IN IF spread.lower40 = 0
       THEN [ op |-> "raised", message_limit |-> message_limit, prompts_used |-> prompts_used,
              confidence_level |-> confidence ]
       ELSE [ op |-> "bounds", message_limit |-> message_limit, prompts_used |-> prompts_used,
              confidence_level |-> confidence,
              pattern |-> get_current_pattern(calc[2]),
              lower |-> Max(0, ((40 * message_limit) \div spread.upper40) - prompts_used),
              expected |-> Max(0, (IF m40 > 0 THEN (40 * message_limit) \div m40 ELSE 0)
                                  - prompts_used),
              upper |-> Max(0, ((40 * message_limit) \div spread.lower40) - prompts_used) ]

InitBounds ==
    /\ now = StartNow
    /\ files = << >>
    /\ entries = << >>
    /\ session_blocks = << >>
    /\ blocks_last_updated = NoTime
    /\ full_data_loaded = FALSE
    /\ hist_pc = "idle" /\ old_blocks = << >> /\ reader_pc = "idle"
    /\ WorkerIdle
    /\ EstimatorIdle
    /\ \E h \in BoundsHistories :
          /\ observed = h
          /\ recent_multipliers = add_prompts(<< << >>, << >> >>, h, 1)[1]
          /\ pattern_history = add_prompts(<< << >>, << >> >>, h, 1)[2]
    /\ block = NoBlock
    /\ entry = NoEntry
    /\ prev = NoResult
    /\ phase = "run"
    /\ ticks = 0

\* calc.add_prompt(message_count)
AddObservation ==
    /\ ticks < MaxBoundsAdds
    /\ \E message_count \in ObservationCounts :
          /\ recent_multipliers' = add_prompt(<< recent_multipliers, pattern_history >>, message_count)[1]
          /\ pattern_history' = add_prompt(<< recent_multipliers, pattern_history >>, message_count)[2]
          /\ observed' = Append(observed, message_count)
    /\ ticks' = ticks + 1
    /\ UNCHANGED << estimator_vars, worker_vars, now, files, entries, session_blocks, blocks_last_updated,
                    full_data_loaded, hist_pc, old_blocks, reader_pc, block, entry, prev, phase >>

\* calc.calculate_bounds(message_limit, prompts_used, confidence)
CalculateBounds ==
    /\ \E message_limit \in Ceilings, prompts_used \in PromptsUsed, confidence \in Confidences :
          prev' = calculate_bounds(<< recent_multipliers, pattern_history >>,
                                   message_limit, prompts_used, confidence)
    /\ UNCHANGED << estimator_vars, worker_vars, bounds_vars, now, files, entries, session_blocks,
                    blocks_last_updated, full_data_loaded, hist_pc, old_blocks, reader_pc,
                    observed, block, entry, phase, ticks >>

NextBounds == AddObservation \/ CalculateBounds

SpecBounds == InitBounds /\ [][NextBounds]_vars

\* C21: with fewer than 5 observations the point estimate is the default
\* multiplier of the detected pattern (simple 3, moderate 7, complex 18,
\* mixed 10): expected = max(0, floor(ceiling / default) - prompts_used).
C21_DefaultMultiplier ==
    [][(CalculateBounds /\ Len(observed) < 5) =>
        LET default == CASE prev'.pattern = "simple" -> 3
                         [] prev'.pattern = "moderate" -> 7
                         [] prev'.pattern = "complex" -> 18
                         [] OTHER -> 10
        IN /\ prev'.op = "bounds"
           /\ prev'.pattern = get_current_pattern(pattern_history)
           /\ prev'.expected =
                 Max(0, (prev'.message_limit \div default) - prev'.prompts_used)]_vars

\* observations 2, 3, 2, ceiling 900 and 50 prompts used: simple, expected 250
C21_Witness ==
    /\ observed = << 2, 3, 2 >>
    /\ prev # NoResult
    /\ prev.op = "bounds"
    /\ prev.message_limit = 900
    /\ prev.prompts_used = 50
    /\ prev.pattern = "simple"
    /\ prev.expected = 250

C23_BoundsOrdered ==
    (prev # NoResult /\ prev.op = "bounds") =>
        /\ 0 <= prev.lower
        /\ prev.lower <= prev.expected
        /\ prev.expected <= prev.upper

\* C24: calculate_bounds returns a PromptBounds value and never raises.
C24_NeverRaises ==
    prev # NoResult => prev.op # "raised"

(***************************************************************************)
(* LimitBelief.update, bayesian_limits.py lines 50-65.  The observations   *)
(* and the scales are whole numbers, the float quotient observation /      *)
(* scale is correctly rounded and the nearest float of a quotient that is  *)
(* exactly 0.9 (0.8) is the literal 0.9 (0.8), so normalized > 0.9 is      *)
(* 10 * observation > 9 * scale.                                           *)
(***************************************************************************)
MaxBeliefUpdates == 3    \* update calls in a run

BeliefScales == { 100, 1000 }

BeliefObservations == { 0, 60, 75, 80, 85, 90, 95, 600, 750, 800, 850, 900, 950, 1200 }

\* lines 53-65
update(b, observation) ==
    IF 10 * observation > 9 * b.scale
    THEN [ b EXCEPT !.alpha = @ + 4, !.beta = @ + 1 ]
    ELSE IF 10 * observation > 8 * b.scale
         THEN [ b EXCEPT !.alpha = @ + 3, !.beta = @ + 2 ]
         ELSE [ b EXCEPT !.alpha = @ + 1, !.beta = @ + 4 ]

\* belief = LimitBelief(alpha=4.0, beta=2.0, scale=...)
InitBelief ==
    /\ now = StartNow
    /\ files = << >>
    /\ entries = << >>
    /\ session_blocks = << >>
    /\ blocks_last_updated = NoTime
    /\ full_data_loaded = FALSE
    /\ Idle
    /\ WorkerIdle
    /\ BoundsIdle
    /\ limits = initialize_priors("max20x")
    /\ total_observations = 0
    /\ \E scale \in BeliefScales : belief = LimitBelief(4, 2, scale)
    /\ block = NoBlock
    /\ entry = NoEntry
    /\ prev = NoResult
    /\ phase = "run"
    /\ ticks = 0

\* belief.update(observation)
UpdateBelief ==
    /\ ticks < MaxBeliefUpdates
    /\ \E observation \in BeliefObservations :
          /\ belief' = update(belief, observation)
          /\ prev' = [ op |-> "update", before |-> belief, observation |-> observation ]
    /\ ticks' = ticks + 1
    /\ UNCHANGED << worker_vars, bounds_vars, limits, total_observations, now, files, entries,
                    session_blocks, blocks_last_updated, full_data_loaded, hist_pc, old_blocks,
                    reader_pc, observed, block, entry, phase >>

\* a query of the belief between two updates: LimitBelief.mean, lines 25-28,
\* as the fraction alpha * scale / (alpha + beta)
ReadMean ==
    /\ prev' = [ op |-> "mean", num |-> belief.alpha * belief.scale,
                 den |-> belief.alpha + belief.beta ]
    /\ UNCHANGED << worker_vars, bounds_vars, estimator_vars, now, files, entries,
                    session_blocks, blocks_last_updated, full_data_loaded, hist_pc, old_blocks,
                    reader_pc, observed, block, entry, phase, ticks >>

NextBelief == UpdateBelief \/ ReadMean

SpecBelief == InitBelief /\ [][NextBelief]_vars

\* C25: with n = observation / scale, update adds (2.0, 0.5) to (alpha, beta)
\* when n >= 0.9, (1.5, 1.0) when 0.8 <= n < 0.9 and (0.5, 2.0) otherwise,
\* and leaves scale unchanged.
C25_UpdateThresholds ==
    [][UpdateBelief =>
        LET o == prev'.observation
        IN /\ belief'.scale = belief.scale
           /\ 10 * o >= 9 * belief.scale =>
                (belief'.alpha = belief.alpha + 4 /\ belief'.beta = belief.beta + 1)
           /\ (10 * o >= 8 * belief.scale /\ 10 * o < 9 * belief.scale) =>
                (belief'.alpha = belief.alpha + 3 /\ belief'.beta = belief.beta + 2)
           /\ 10 * o < 8 * belief.scale =>
                (belief'.alpha = belief.alpha + 1 /\ belief'.beta = belief.beta + 4)]_vars

\* C26: from alpha 4.0, beta 2.0, scale 1000 one update with 950 gives alpha
\* 6.0, beta 2.5, and one update with 850 gives alpha 5.0, beta 2.5: an
\* observation between 80% and 90% of scale adds 1.0 to alpha and 0.5 to beta.
C26_UpdateExample ==
    (prev # NoResult /\ prev.op = "update" /\ prev.before = LimitBelief(4, 2, 1000)) =>
        /\ prev.observation = 950 => belief = [ alpha |-> 12, beta |-> 5, scale |-> 1000 ]
        /\ prev.observation = 850 => belief = [ alpha |-> 10, beta |-> 5, scale |-> 1000 ]

(***************************************************************************)
(* BayesianLimitEstimator, bayesian_limits.py lines 76-189.  An estimate   *)
(* alpha / (alpha + beta) * scale and a predicted time are kept as exact   *)
(* fractions [num, den] in lowest terms; infinity is the fraction 1 / 0.   *)
(* The standard deviation and the credible interval of an estimate (a     *)
(* square root and a Beta quantile) are values of the returned dict that   *)
(* no state depends on; they are left out of the result.                   *)
(***************************************************************************)
MaxSessionUpdates == 4   \* update_from_session calls in a run

confidence_threshold == 10

Metrics == << "tokens", "messages", "prompts" >>

Plans == { "pro", "max5x", "max20x", "team" }

\* session_data dicts: the key max_<metric> of a metric
max_key(metric) ==
    CASE metric = "tokens" -> "max_tokens"
      [] metric = "messages" -> "max_messages"
      [] OTHER -> "max_prompts"

\* dicts handed to update_from_session: the result of
\* get_historical_session_maximums (every key present; no session analyzed
\* gives zeros) and dicts that lack keys
SessionData ==
    { [ max_tokens |-> 0, max_messages |-> 0, max_prompts |-> 0, sessions_analyzed |-> 0 ],
      [ max_tokens |-> 50000, max_messages |-> 800, max_prompts |-> 150, sessions_analyzed |-> 3 ],
      [ max_tokens |-> 380000, max_messages |-> 55, max_prompts |-> 170, sessions_analyzed |-> 10 ],
      [ max_prompts |-> 100 ],
      [ sessions_analyzed |-> 1 ] }

Usages ==
    { [ tokens |-> 0, messages |-> 0, prompts |-> 0 ],
      [ tokens |-> 10000, messages |-> 30, prompts |-> 25 ],
      [ tokens |-> 100000, messages |-> 500, prompts |-> 200 ],
      [ tokens |-> 400000, messages |-> 2000, prompts |-> 800 ],
      [ tokens |-> 1000, messages |-> 50 ] }

BurnRates ==
    { [ tokens |-> 0, messages |-> 0, prompts |-> 0 ],
      [ tokens |-> 5000, messages |-> 15, prompts |-> 10 ],
      [ tokens |-> 1000, messages |-> 10, prompts |-> 0 ],
      [ tokens |-> -500, messages |-> 50 ] }

RECURSIVE gcd(_, _)
gcd(a, b) == IF b = 0 THEN a ELSE gcd(b, a % b)

\* the fraction n / d, d > 0, in lowest terms
ratio(n, d) ==
    LET g == gcd(IF n < 0 THEN -n ELSE n, d)
    IN [ num |-> n \div g, den |-> d \div g ]

Zero == [ num |-> 0, den |-> 1 ]

\* float('inf')
Infinity == [ num |-> 1, den |-> 0 ]

\* a <= b on fractions, infinity included
time_le(a, b) == a.num * b.den <= b.num * a.den

\* LimitBelief.mean, lines 25-28 (the halves of alpha and beta cancel)
mean(b) == ratio(b.alpha * b.scale, b.alpha + b.beta)

\* line 134: session_data.get('sessions_analyzed', 1), taken as always 1
sessions_count_one(session_data) == 1

\* line 134
sessions_count(session_data) ==
    IF "sessions_analyzed" \in DOMAIN session_data THEN session_data.sessions_analyzed ELSE 1

\* lines 124-131
updated_limits(lim, session_data) ==
    [ metric \in { "tokens", "messages", "prompts" } |->
        IF max_key(metric) \in DOMAIN session_data
        THEN update(lim[metric], session_data[max_key(metric)])
        ELSE lim[metric] ]

\* line 141
confidence_of(total) == IF total >= confidence_threshold THEN "0.95" ELSE "0.80"

\* get_estimated_limits, lines 138-164
get_estimated_limits(lim, total) ==
    [ op |-> "estimates",
      tokens |-> [ estimate |-> mean(lim["tokens"]), confidence |-> confidence_of(total) ],
      messages |-> [ estimate |-> mean(lim["messages"]), confidence |-> confidence_of(total) ],
      prompts |-> [ estimate |-> mean(lim["prompts"]), confidence |-> confidence_of(total) ],
      total_observations |-> total,
      confidence_level |-> IF total >= confidence_threshold THEN "high" ELSE "learning" ]

\* line 178: max(0, hours_until_limit), taken as hours_until_limit
clamped_not(hours) == hours

\* line 178: max(0, hours_until_limit)
clamped(hours) == IF hours.num <= 0 THEN Zero ELSE hours

\* lines 174-182: the prediction of one metric
prediction(estimate, metric, current_usage, burn_rates) ==
    IF metric \in DOMAIN current_usage /\ metric \in DOMAIN burn_rates
    THEN IF burn_rates[metric] > 0
         THEN clamped(ratio(estimate.num - current_usage[metric] * estimate.den,
                            estimate.den * burn_rates[metric]))
         ELSE Infinity
    ELSE Infinity

\* line 185: min(predictions.keys(), key=...) returns the first key, in the
\* order tokens, messages, prompts, whose value no other value is below
limiting_factor_of(predictions) ==
    LET least(i) == \A j \in 1..3 : time_le(predictions[Metrics[i]], predictions[Metrics[j]])
    IN Metrics[CHOOSE i \in 1..3 : least(i) /\ \A j \in 1..(i - 1) : ~least(j)]

\* predict_limit_times, lines 166-189
predict_limit_times(lim, total, current_usage, burn_rates) ==
    LET estimates == get_estimated_limits(lim, total)
        predictions == [ metric \in { "tokens", "messages", "prompts" } |->
                            prediction(estimates[metric].estimate, metric,
                                       current_usage, burn_rates) ]
        limiting_factor == limiting_factor_of(predictions)
    IN [ op |-> "predictions", current_usage |-> current_usage, burn_rates |-> burn_rates,
         estimates |-> [ metric \in { "tokens", "messages", "prompts" } |->
                            estimates[metric].estimate ],
         tokens |-> predictions["tokens"],
         messages |-> predictions["messages"],
         prompts |-> predictions["prompts"],
         limiting_factor |-> limiting_factor,
         time_to_limit |-> predictions[limiting_factor] ]

\* BayesianLimitEstimator(plan_name)
InitLimits ==
    /\ now = StartNow
    /\ files = << >>
    /\ entries = << >>
    /\ session_blocks = << >>
    /\ blocks_last_updated = NoTime
    /\ full_data_loaded = FALSE
    /\ Idle
    /\ WorkerIdle
    /\ BoundsIdle
    /\ \E plan_name \in Plans : limits = initialize_priors(plan_name)
    /\ total_observations = 0
    /\ belief = LimitBelief(4, 2, 1000)
    /\ block = NoBlock
    /\ entry = NoEntry
    /\ prev = NoResult
    /\ phase = "run"
    /\ ticks = 0

\* estimator.update_from_session(session_data)
UpdateFromSession ==
    /\ ticks < MaxSessionUpdates
    /\ \E session_data \in SessionData :
          /\ limits' = updated_limits(limits, session_data)
          /\ total_observations' = total_observations + sessions_count(session_data)
          /\ prev' = [ op |-> "update_from_session", session_data |-> session_data ]
    /\ ticks' = ticks + 1
    /\ UNCHANGED << worker_vars, bounds_vars, belief, now, files, entries, session_blocks,
                    blocks_last_updated, full_data_loaded, hist_pc, old_blocks, reader_pc,
                    observed, block, entry, phase >>

\* estimator.get_estimated_limits()
GetEstimatedLimits ==
    /\ prev' = get_estimated_limits(limits, total_observations)
    /\ UNCHANGED << worker_vars, bounds_vars, estimator_vars, now, files, entries,
                    session_blocks, blocks_last_updated, full_data_loaded, hist_pc, old_blocks,
                    reader_pc, observed, block, entry, phase, ticks >>

\* estimator.predict_limit_times(current_usage, burn_rates)
PredictLimitTimes ==
    /\ \E current_usage \in Usages, burn_rates \in BurnRates :
          prev' = predict_limit_times(limits, total_observations, current_usage, burn_rates)
    /\ UNCHANGED << worker_vars, bounds_vars, estimator_vars, now, files, entries,
                    session_blocks, blocks_last_updated, full_data_loaded, hist_pc, old_blocks,
                    reader_pc, observed, block, entry, phase, ticks >>

NextLimits == UpdateFromSession \/ GetEstimatedLimits \/ PredictLimitTimes

SpecLimits == InitLimits /\ [][NextLimits]_vars

\* C27: every update_from_session adds the batch's sessions_analyzed (1 when
\* the key is absent) to total_observations; get_estimated_limits reports
\* confidence 0.95 for every metric exactly when total_observations >= 10 and
\* 0.80 otherwise; the counter never falls back below 10, so 0.95 once
\* reported is reported by every later query.
C27_ObservationCounter ==
    [][/\ UpdateFromSession =>
            total_observations' = total_observations +
                (IF "sessions_analyzed" \in DOMAIN prev'.session_data
                 THEN prev'.session_data.sessions_analyzed ELSE 1)
       /\ GetEstimatedLimits =>
            \A i \in 1..3 :
                prev'[Metrics[i]].confidence =
                    (IF total_observations >= 10 THEN "0.95" ELSE "0.80")
       /\ total_observations >= 10 => total_observations' >= 10]_vars

\* a query that reports 0.95 after batches of 3, 3, 3 and 1 sessions
C27_Witness ==
    /\ total_observations = 10
    /\ ticks = 4
    /\ prev.op = "estimates"
    /\ prev.prompts.confidence = "0.95"

\* current usage meets or exceeds the estimate of a metric
exceeded(result, metric) ==
    /\ metric \in DOMAIN result.current_usage
    /\ result.current_usage[metric] * result.estimates[metric].den
          >= result.estimates[metric].num

\* C28: a metric whose current usage meets or exceeds its estimate gets the
\* predicted time 0, and when the usage exceeds the estimate of every metric
\* time_to_limit is 0, whatever the burn rates are.
C28_ExceededIsZero ==
    (prev # NoResult /\ prev.op = "predictions") =>
        /\ \A i \in 1..3 : exceeded(prev, Metrics[i]) => prev[Metrics[i]] = Zero
        /\ (\A i \in 1..3 : exceeded(prev, Metrics[i])) => prev.time_to_limit = Zero

\* the quotient (estimate - current) / rate equals the fraction t
is_quotient(result, metric, t) ==
    (result.estimates[metric].num
        - result.current_usage[metric] * result.estimates[metric].den) * t.den
    = t.num * (result.estimates[metric].den * result.burn_rates[metric])

\* a metric of the inputs with a positive burn rate
has_rate(result, metric) ==
    /\ metric \in DOMAIN result.current_usage
    /\ metric \in DOMAIN result.burn_rates
    /\ result.burn_rates[metric] > 0

\* every prediction is >= 0, time_to_limit is the least of the three and
\* limiting_factor is a metric that attains it
least_prediction(result) ==
    /\ \A i \in 1..3 : time_le(Zero, result[Metrics[i]])
    /\ \A i \in 1..3 : time_le(result.time_to_limit, result[Metrics[i]])
    /\ result.limiting_factor \in { "tokens", "messages", "prompts" }
    /\ result.time_to_limit = result[result.limiting_factor]

MaxEvictTicks == 3       \* sleeps that advance the clock in a run

\* what a sleep loop takes: the configured half minute and a second, or far
\* longer when the machine was suspended
EvictDeltas == { cache_duration_seconds + 1, 4 * Hour, Day + Hour }

\* the log when the thread starts: not empty
EvictLogs == { lines \in InitialLogs : Len(lines) > 0 }

InitEvict ==
    /\ now = StartNow
    /\ \E lines \in EvictLogs : files = << [ readable |-> TRUE, lines |-> lines ] >>
    /\ entries = << >>
    /\ session_blocks = << >>
    /\ blocks_last_updated = NoTime
    /\ full_data_loaded = FALSE
    /\ Idle
    /\ running = TRUE
    /\ worker_pc = "fetching"
    /\ slept = 0
    /\ emitted = NoData
    /\ last_historical_update = NoTime
    /\ EstimatorIdle
    /\ BoundsIdle
    /\ block = NoBlock
    /\ entry = NoEntry
    /\ prev = NoData
    /\ phase = "run"
    /\ ticks = 0

\* main.py lines 82 and 92-95 with self.running true: the whole sleep loop
\* and the loop test
SleepCycle ==
    /\ worker_pc = "sleep_test"
    /\ running
    /\ \E d \in EvictDeltas : now' = IF ticks < MaxEvictTicks THEN now + d ELSE now
    /\ ticks' = IF ticks < MaxEvictTicks THEN ticks + 1 ELSE ticks
    /\ worker_pc' = "fetching"
    /\ UNCHANGED << estimator_vars, running, slept, emitted, last_historical_update,
                    bounds_vars, files, entries, session_blocks, blocks_last_updated,
                    full_data_loaded, hist_pc, old_blocks, reader_pc, observed, block, entry,
                    prev, phase >>

EvictStep == Emit \/ SleepCycle

NextEvict == Fetch \/ Emit \/ SleepCycle

\* the worker thread is scheduled again and again and fetch_claude_data ends
SpecEvict == InitEvict /\ [][NextEvict]_vars /\ WF_vars(EvictStep) /\ FetchEnds

\* a block is still flagged active, and so kept, in a list that was refreshed
\* more than the retention horizon (and a cache validity) after its window
\* had closed
expired_active(blocks, refreshed) ==
    \E i \in 1..Len(blocks) :
        /\ blocks[i].is_active
        /\ refreshed # NoTime
        /\ blocks[i].end_time + RETENTION_HOURS * Hour + cache_duration_seconds < refreshed

\* C32: under repeated refresh cycles with no new log entries no block stays
\* active, and so unevictable, forever: an active block becomes inactive
\* after its window has closed and is evicted once its end is older than the
\* 24-hour retention horizon.
C32_ActiveBlocksExpire ==
    []<>(~ expired_active(session_blocks, blocks_last_updated))

\* C40: when no session block contains the current time, the dict built by
\* fetch_claude_data reports is_active = FALSE.
C40_NoBlockNotActive ==
    (worker_pc = "fetched" /\ current_block_index(session_blocks, prev.last_update) = 0) =>
        ~ prev.is_active

\* C37: at most one block has is_active = TRUE, and an active block is the
\* last block of the list.
C37_OneActiveLast ==
    \A i \in 1..Len(session_blocks) : session_blocks[i].is_active => i = Len(session_blocks)

(***************************************************************************)
(* SpecHistory: calculate_historical_prompt_rate on the blocks of a        *)
(* rebuild.  The rate is kept as the pair of its numerator (prompts) and   *)
(* its denominator in seconds; seconds > 1800 is total_hours > 0.5.        *)
(***************************************************************************)
MaxHistEntries == 3

MIN_RATE_SECONDS == 1800     \* 0.5 hours

RATE_HOURS_BACK == 24

HistNows == { Epoch + 21 * Hour + 5 * Minute, Epoch + Day + 12 * Hour }

\* user entries: a genuine prompt, a tool result; and assistant messages
HistShapes ==
    EntryShapes \cup { [ type |-> "user", content |-> "tool_result", usage |-> EmptyUsage ] }

HistLists ==
    UNION { { [ i \in 1..n |->
                 [ timestamp |-> ts[i], usage |-> sh[i].usage, message_id |-> NoId,
                   request_id |-> NoId, type |-> sh[i].type, content |-> sh[i].content,
                   src |-> << 1, i >> ] ]
              : ts \in { x \in [1..n -> RebuildTimes] :
                            \A i \in 1..n : \A j \in 1..n : i < j => x[i] <= x[j] },
                sh \in [1..n -> HistShapes] }
            : n \in 0..MaxHistEntries }

\* lines 579-582: the entries of a block whose raw type is user
user_entries(b) == Cardinality({ k \in 1..Len(b.entries) : b.entries[k].type = "user" })

\* lines 586-587: block.actual_end_time or block.end_time, less start_time
block_seconds(b) ==
    (IF b.actual_end_time # NoTime THEN b.actual_end_time ELSE b.end_time) - b.start_time

\* lines 576-590: the sums over blocks[i..]
RECURSIVE rate_sums(_, _, _, _)
rate_sums(blocks, i, cutoff, acc) ==
    IF i > Len(blocks) THEN acc
    ELSE rate_sums(blocks, i + 1, cutoff,
            IF blocks[i].start_time >= cutoff /\ user_entries(blocks[i]) > 0
            THEN [ prompts |-> acc.prompts + user_entries(blocks[i]),
                   seconds |-> acc.seconds + block_seconds(blocks[i]) ]
            ELSE acc)

\* calculate_historical_prompt_rate, lines 566-597
calculate_historical_prompt_rate(blocks, t, hours_back) ==
    LET sums == rate_sums(blocks, 1, t - hours_back * Hour, [ prompts |-> 0, seconds |-> 0 ])
    IN IF sums.seconds > MIN_RATE_SECONDS
       THEN [ op |-> "prompt_rate", defined |-> TRUE,
              prompts |-> sums.prompts, seconds |-> sums.seconds ]
       ELSE [ op |-> "prompt_rate", defined |-> FALSE, prompts |-> 0, seconds |-> 0 ]

InitHistory ==
    /\ now \in HistNows
    /\ files = << >>
    /\ entries \in HistLists
    /\ session_blocks = << >>
    /\ blocks_last_updated = NoTime
    /\ full_data_loaded = FALSE
    /\ Idle
    /\ WorkerIdle
    /\ EstimatorIdle
    /\ BoundsIdle
    /\ block = NoBlock
    /\ entry = NoEntry
    /\ prev = NoResult
    /\ phase = "input"
    /\ ticks = 0

\* self.reader.calculate_historical_prompt_rate()
CalculateHistoricalPromptRate ==
    /\ phase = "rebuilt"
    /\ prev' = calculate_historical_prompt_rate(session_blocks, now, RATE_HOURS_BACK)
    /\ UNCHANGED << estimator_vars, worker_vars, bounds_vars, now, files, entries,
                    session_blocks, blocks_last_updated, full_data_loaded, hist_pc, old_blocks,
                    reader_pc, observed, block, entry, phase, ticks >>

NextHistory == FullRebuild \/ CalculateHistoricalPromptRate

SpecHistory == InitHistory /\ [][NextHistory]_vars

\* the blocks of the list that start within the horizon
in_horizon(blocks, t) ==
    { i \in 1..Len(blocks) : blocks[i].start_time >= t - 24 * Hour }

RECURSIVE sum_over(_, _, _)
sum_over(blocks, indices, field) ==
    IF indices = {} THEN 0
    ELSE LET i == CHOOSE x \in indices : TRUE
         IN (IF field = "prompts" THEN blocks[i].user_prompt_count
             ELSE (IF blocks[i].actual_end_time # NoTime THEN blocks[i].actual_end_time
                   ELSE blocks[i].end_time) - blocks[i].start_time)
            + sum_over(blocks, indices \ { i }, field)

\* C34: calculate_historical_prompt_rate returns (sum of the genuine user
\* prompts counted for each block) / (sum of the elapsed active hours) over
\* all blocks that start within the horizon whenever the cumulative active
\* time is at least 30 minutes, and None otherwise.
C34_HistoricalPromptRate ==
    (prev # NoResult /\ prev.op = "prompt_rate") =>
        LET blocks == in_horizon(session_blocks, now)
            P == sum_over(session_blocks, blocks, "prompts")
            T == sum_over(session_blocks, blocks, "seconds")
        IN IF T >= 30 * Minute
           THEN prev.defined /\ prev.prompts * T = P * prev.seconds
           ELSE ~ prev.defined

(***************************************************************************)
(* SpecFeed: get_prompt_bounds, called once per refresh cycle on the       *)
(* blocks of a rebuild, with update_bounds_calculator as its first step.   *)
(***************************************************************************)
MaxFeedCalls == 2

DEFAULT_MESSAGE_LIMIT == 900

FEED_HOURS_BACK == 24

\* lines 897-918: the entries es[i..] of one block, current_messages so far
RECURSIVE feed_entries(_, _, _, _)
feed_entries(calc, es, i, current_messages) ==
    IF i > Len(es)
    THEN IF current_messages > 0 THEN add_prompt(calc, current_messages) ELSE calc
    ELSE IF es[i].type = "user"
    THEN IF ~ is_tool_result(es[i].content) /\ current_messages > 0
         THEN feed_entries(add_prompt(calc, current_messages), es, i + 1, 0)
         ELSE feed_entries(calc, es, i + 1, current_messages)
    ELSE IF es[i].type = "assistant"
    THEN feed_entries(calc, es, i + 1, current_messages + 1)
    ELSE feed_entries(calc, es, i + 1, current_messages)

\* update_bounds_calculator, lines 887-922, over blocks[i..]
RECURSIVE update_bounds_calculator(_, _, _, _)
update_bounds_calculator(calc, blocks, i, t) ==
    IF i > Len(blocks) THEN calc
    ELSE update_bounds_calculator(
            IF blocks[i].start_time >= t - FEED_HOURS_BACK * Hour
            THEN feed_entries(calc, blocks[i].entries, 1, 0)
            ELSE calc,
            blocks, i + 1, t)

\* get_current_session_prompts()['prompts_used'], lines 1023-1039
prompts_used_of(blocks, t) ==
    IF current_block_index(blocks, t) = 0 THEN 0
    ELSE blocks[current_block_index(blocks, t)].user_prompt_count

InitFeed ==
    /\ now \in HistNows
    /\ files = << >>
    /\ entries \in HistLists
    /\ session_blocks = << >>
    /\ blocks_last_updated = NoTime
    /\ full_data_loaded = FALSE
    /\ Idle
    /\ WorkerIdle
    /\ EstimatorIdle
    /\ BoundsIdle
    /\ block = NoBlock
    /\ entry = NoEntry
    /\ prev = NoResult
    /\ phase = "input"
    /\ ticks = 0

\* reader.get_prompt_bounds(plan_name, prompt_info['prompts_used'], confidence=0.8),
\* main.py lines 115-119 and reader lines 954-976
GetPromptBounds ==
    /\ phase = "rebuilt"
    /\ ticks < MaxFeedCalls
    /\ LET calc == update_bounds_calculator(<< recent_multipliers, pattern_history >>,
                                            session_blocks, 1, now)
       IN /\ recent_multipliers' = calc[1]
          /\ pattern_history' = calc[2]
          /\ prev' = calculate_bounds(calc, DEFAULT_MESSAGE_LIMIT,
                                      prompts_used_of(session_blocks, now), "0.8")
    /\ ticks' = ticks + 1
    /\ UNCHANGED << estimator_vars, worker_vars, now, files, entries, session_blocks,
                    blocks_last_updated, full_data_loaded, hist_pc, old_blocks, reader_pc,
                    observed, block, entry, phase >>

NextFeed == FullRebuild \/ GetPromptBounds

SpecFeed == InitFeed /\ [][NextFeed]_vars

\* C35: each prompt's observation is fed to the calculator at most once: a
\* get_prompt_bounds call that follows an earlier one with no new log entries
\* leaves the rolling window, the pattern history and the returned bounds
\* as they were.
C35_FedOnce ==
    [][(phase = "rebuilt" /\ ticks >= 1 /\ ticks' = ticks + 1) =>
          /\ recent_multipliers' = recent_multipliers
          /\ pattern_history' = pattern_history
          /\ prev' = prev]_vars

(***************************************************************************)
(* SpecDisplay: the worker's cycle with the historical maximums it caches, *)
(* and the card's update_display on every dict the worker emits.  The      *)
(* worker's self.historical_maximums is the historical_maximums of the     *)
(* last dict it built (None before the first).                             *)
(***************************************************************************)
NoMaximums == [ op |-> "None" ]

\* self.historical_maximums
cached_maximums(last_result) ==
    IF "historical_maximums" \in DOMAIN last_result THEN last_result.historical_maximums
    ELSE NoMaximums

\* main.py line 152: the dict with its 'historical_maximums'
with_maximums(result, maximums) ==
    [ k \in DOMAIN result \cup { "historical_maximums" } |->
        IF k = "historical_maximums" THEN maximums ELSE result[k] ]

\* fetch_claude_data, main.py lines 97-158, with lines 128-136
FetchData ==
    /\ worker_pc = "fetching"
    /\ LET m == update_session_blocks(manager, FALSE, NoHours, files, now)
           due == maximums_due(last_historical_update, now)
           h == update_session_blocks(m, TRUE, HIST_DAYS_BACK * 24, files, now)
       IN /\ session_blocks' = m.session_blocks
          /\ full_data_loaded' = IF due THEN h.full_data_loaded ELSE m.full_data_loaded
          /\ blocks_last_updated' = IF due THEN now ELSE m.blocks_last_updated
          /\ last_historical_update' = IF due THEN now ELSE last_historical_update
          /\ prev' = with_maximums(fetch_result(m.session_blocks, now),
                                   IF due THEN historical_maximums(h.session_blocks)
                                   ELSE cached_maximums(prev))
    /\ worker_pc' = "fetched"
    /\ UNCHANGED << estimator_vars, running, slept, emitted, bounds_vars, now, files, entries,
                    hist_pc, old_blocks, reader_pc, observed, block, entry, phase, ticks >>

\* main.py lines 85-86, self.data_ready.emit(data), and the slot it runs:
\* update_display, claude_code_card.py lines 331-334
DataReady ==
    /\ worker_pc = "fetched"
    /\ emitted' = prev
    /\ IF prev.historical_maximums # NoMaximums
       THEN /\ limits' = updated_limits(limits, prev.historical_maximums)
            /\ total_observations' =
                   total_observations + sessions_count(prev.historical_maximums)
       ELSE UNCHANGED << limits, total_observations >>
    /\ worker_pc' = "sleep_test"
    /\ slept' = 0
    /\ UNCHANGED << belief, running, last_historical_update, bounds_vars, now, files,
                    entries, session_blocks, blocks_last_updated, full_data_loaded, hist_pc,
                    old_blocks, reader_pc, observed, block, entry, prev, phase, ticks >>

\* the sleep loop, while the clock of the model still advances
NextCycle == ticks < MaxEvictTicks /\ SleepCycle

NextDisplay == FetchData \/ DataReady \/ NextCycle

SpecDisplay == InitEvict /\ [][NextDisplay]_vars

\* the dict about to be delivered carries maximums that were not computed in
\* the cycle that built it
redelivered(result, last_update) == result.last_update # last_update

\* C36: a historical-maximums result updates the beliefs at most once: a
\* delivery of the cached maximums of an earlier cycle leaves alpha, beta and
\* total_observations of every metric unchanged, and so does a result with
\* sessions_analyzed = 0.
C36_MaximumsAppliedOnce ==
    [][(/\ worker_pc = "fetched"
        /\ worker_pc' = "sleep_test"
        /\ \/ redelivered(prev, last_historical_update)
           \/ prev.historical_maximums.sessions_analyzed = 0) =>
          /\ limits' = limits
          /\ total_observations' = total_observations]_vars

(***************************************************************************)
(* SpecChain: a rebuild of the first entries of a stream whose entries     *)
(* follow each other closely around the end of a session window, and the   *)
(* merge of the rest.                                                      *)
(***************************************************************************)
MaxChain == 4

ChainNow == Epoch + 15 * Hour + 12 * Minute

\* inside the window 10:00-15:00, then every four minutes across its end
ChainTimes == { Epoch + 10 * Hour + 30 * Minute,
                Epoch + 14 * Hour + 58 * Minute,
                Epoch + 15 * Hour + 2 * Minute,
                Epoch + 15 * Hour + 6 * Minute,
                Epoch + 15 * Hour + 10 * Minute }

ChainLists ==
    UNION { { [ i \in 1..n |->
                 [ timestamp |-> ts[i], usage |-> AssistantUsage, message_id |-> NoId,
                   request_id |-> NoId, type |-> "assistant", content |-> "none",
                   src |-> << 1, i >> ] ]
              : ts \in { x \in [1..n -> ChainTimes] :
                            \A i \in 1..n : \A j \in 1..n : i < j => x[i] <= x[j] } }
            : n \in 0..MaxChain }

InitChain ==
    /\ now = ChainNow
    /\ files = << >>
    /\ entries \in ChainLists
    /\ session_blocks = << >>
    /\ blocks_last_updated = NoTime
    /\ full_data_loaded = FALSE
    /\ Idle
    /\ WorkerIdle
    /\ EstimatorIdle
    /\ BoundsIdle
    /\ block = NoBlock
    /\ entry = NoEntry
    /\ prev = 0
    /\ phase = "input"
    /\ ticks = 0

SpecChain == InitChain /\ [][NextRebuild]_vars

\* C38: for every block, end_time - start_time <= the session duration plus
\* the 5-minute gap threshold.
C38_BlockLengthBounded ==
    \A i \in 1..Len(session_blocks) :
        session_blocks[i].end_time - session_blocks[i].start_time
            <= SessionDuration + SESSION_GAP_MINUTES * Minute

(***************************************************************************)
(* SpecLate: refresh cycles over two log files.  The assistant of this     *)
(* project appends to the first; the second belongs to another project,    *)
(* whose lines reach the file some time after the moment they are stamped  *)
(* with.                                                                   *)
(***************************************************************************)
MaxLateLines == 1

LateDelay == 2 * Minute

InitLate ==
    /\ now = StartNow
    /\ \E lines \in WorkerLogs :
          files = << [ readable |-> TRUE, lines |-> lines ],
                     [ readable |-> TRUE, lines |-> << >> ] >>
    /\ entries = << >>
    /\ session_blocks = << >>
    /\ blocks_last_updated = NoTime
    /\ full_data_loaded = FALSE
    /\ Idle
    /\ WorkerIdle
    /\ EstimatorIdle
    /\ BoundsIdle
    /\ block = NoBlock
    /\ entry = NoEntry
    /\ prev = NoResult
    /\ phase = "run"
    /\ ticks = 0

\* the other project's line, stamped LateDelay ago, reaches its file
AppendLate ==
    /\ Len(files[2].lines) < MaxLateLines
    /\ \E shape \in LineShapes :
          files' = [ files EXCEPT ![2].lines = Append(@, log_line(shape, now - LateDelay)) ]
    /\ UNCHANGED << estimator_vars, worker_vars, bounds_vars, now, entries, session_blocks,
                    blocks_last_updated, full_data_loaded, hist_pc, old_blocks, reader_pc,
                    observed, block, entry, prev, phase, ticks >>

NextLate == Advance \/ AppendLine \/ AppendLate \/ Refresh

SpecLate == InitLate /\ [][NextLate]_vars

\* the entries the files hold with a timestamp inside the lookback of the
\* incremental refresh
in_lookback(fs, t) ==
    LET es == load_usage_entries(fs, INCREMENTAL_HOURS, t, fully_delivered(fs))
    IN { es[k] : k \in 1..Len(es) }

\* C39: no entry is lost by incremental refresh: after a refresh that is not
\* suppressed by the cache, every valid entry of the files with a timestamp
\* inside the 1-hour lookback is owned by some block, also when it reached
\* its file after an earlier refresh with a timestamp at or below the latest
\* timestamp already ingested.
C39_NoEntryLost ==
    [][(Refresh /\ branch_of(manager, FALSE, NoHours, now) # "suppressed") =>
          in_lookback(files, now) \subseteq stored(session_blocks')]_vars

====
